---- MODULE Spec2Model ----
(***************************************************************************)
(* The CX1 succinct de Bruijn graph construction core of MEGAHIT:          *)
(* cx1_seq2sdbg (edge pipeline) and cx1_read2sdbg stage 2 (read pipeline). *)
(* Bucket sizes -> level-1 differential offsets -> level-2 substrings ->   *)
(* sort -> SdBG emitter (W / LAST / IsDollar / multiplicity / .f / .dn).   *)
(***************************************************************************)
EXTENDS Integers, Sequences, FiniteSets, TLC

(***************************************************************************)
(* State.                                                                  *)
(***************************************************************************)
VARIABLES
    input,      \* kmer_k, package, multiplicity, thread counts (fixed by Init)
    pc,         \* position of the main thread in CX1::run
    cx1,        \* bucket_sizes_, level-1 / level-2 ranges, limits, side table, op_
    rp,         \* read partitions: one record per level-1 filler worker
    lv1_items,  \* the level-1 buffer of 32-bit slots
    lv2,        \* level-2 buffers (front and _db), lv2_aux, lv2_output_items
    out,        \* output workers: position and locals
    g,          \* emitter counters of globals
    files,      \* the output streams
    emitted,    \* log of the records the write section has written
    driver,     \* the python driver: options, check point file, stage position
    mercy,      \* GenMercyEdges: flags of the reads, scan position, mercy edges
    dbg         \* the succinct de Bruijn graph that Trim / RemoveTips work on

vars == <<input, pc, cx1, rp, lv1_items, lv2, out, g, files, emitted, driver, mercy, dbg>>

\* the state of the other programs of the repository, which the builder leaves alone
side == <<driver, mercy, dbg>>
NotStarted == [pc |-> "not_started"]

(***************************************************************************)
(* Bounds of the model (inputs and scaled sizes).                          *)
(***************************************************************************)
\* k of the inputs of the builder
BaseK == 2
\* k of the scenarios of a single edge
ScenarioK == 3
\* k of the k-mer nodes (globals.kmer_k); edges are (k+1)-mers
kmer_k == input.kmer_k
\* number of leading bases that select the bucket (scaled down from 8)
kBucketPrefixLength == 1
\* largest number of sequences in the packed store
MaxSeqs == 2
\* sequences have kmer_k + 1 .. kmer_k + 1 + MaxExtraLen bases
MaxExtraLen == 0
\* largest number of level-1 filler workers (num_cpu_threads)
MaxCpuThreads == 2
\* largest number of output workers (num_output_threads)
MaxOutputThreads == 2
\* cx1_t::kDifferentialLimit, scaled down from 2^31 - 1
kDifferentialLimit == 3
\* kMinLv2BatchSize, scaled down from 2M items
kMinLv2BatchSize == 2
\* kMaxDummyEdges, scaled down
kMaxDummyEdges == 4
\* globals.offset_num_bits: bits of an offset inside a read
offset_num_bits == 2
\* kDefaultLv1ScanTime, scaled down
kDefaultLv1ScanTime == 2

(***************************************************************************)
(* Program constants.                                                      *)
(***************************************************************************)
kSentinelValue == 4
kBucketBase == 5
kMaxMulti_t == 65535
kMaxMulti2_t == 254
kMulti2Sp == 255
kMul2Shift == 16
kMaxLv1ScanTime == 64
kNumBuckets == kBucketBase ^ kBucketPrefixLength
kNumBucketsRead == 4 ^ kBucketPrefixLength

kBitsPerEdgeChar == 2
kBitsPerEdgeWord == 32

DivCeiling(a, b) == (a + b - 1) \div b
words_per_dummy_node == DivCeiling(kmer_k * kBitsPerEdgeChar, kBitsPerEdgeWord)

Min(x, y) == IF x < y THEN x ELSE y
Max(x, y) == IF x > y THEN x ELSE y

RECURSIVE SumSeq(_)
SumSeq(s) == IF s = <<>> THEN 0 ELSE Head(s) + SumSeq(Tail(s))

(***************************************************************************)
(* Packed sequence store (SequencePackage): ids and positions are 0-based. *)
(***************************************************************************)
length(p, id) == Len(p[id + 1])
get_base(p, id, i) == p[id + 1][i + 1]
get_start_index(p, id) == SumSeq([j \in 1..id |-> Len(p[j])])
get_id(p, abs) ==
    CHOOSE id \in 0..(Len(p) - 1) :
        /\ get_start_index(p, id) <= abs
        /\ abs < get_start_index(p, id) + length(p, id)

\* CopySubstring: n bases of sequence id from position off, the item's
\* remaining base slots stay zero
CopySubstring(p, id, off, n) ==
    [j \in 1..kmer_k |-> IF j <= n THEN get_base(p, id, off + j - 1) ELSE 0]
\* CopySubstringRC: the reverse complement of the same n bases
CopySubstringRC(p, id, off, n) ==
    [j \in 1..kmer_k |-> IF j <= n THEN 3 - get_base(p, id, off + n - j) ELSE 0]

(***************************************************************************)
(* Edge pipeline (cx1_seq2sdbg.cpp)                                        *)
(***************************************************************************)
EncodeEdgeOffset(seq_id, offset, strand, p) ==
    ((get_start_index(p, seq_id) + offset) * 2) + strand

\* a differential base taken from the sequence after the worker's first
encode_lv1_diff_base_NextRead(read_id, p) == EncodeEdgeOffset(read_id + 1, 0, 0, p)

\* encode_lv1_diff_base: the encoded offset of the worker's first sequence
encode_lv1_diff_base(read_id, p) == EncodeEdgeOffset(read_id, 0, 0, p)

\* the rolling bucket key after base i of the forward strand has been shifted in
RECURSIVE FwdKey(_, _, _)
FwdKey(p, id, i) ==
    IF i < 0 THEN 0
    ELSE LET v == FwdKey(p, id, i - 1) * kBucketBase + get_base(p, id, i) + 1
         IN  IF i < kBucketPrefixLength - 1 THEN v ELSE v % kNumBuckets

\* the same on the reverse-complement strand
RECURSIVE RevKey(_, _, _)
RevKey(p, id, i) ==
    IF i < 0 THEN 0
    ELSE LET v == RevKey(p, id, i - 1) * kBucketBase
                  + (3 - get_base(p, id, length(p, id) - 1 - i)) + 1
         IN  IF i < kBucketPrefixLength - 1 THEN v ELSE v % kNumBuckets

\* a filler loop that leaves out the last position
SeqLoopRange_Short(p, id) ==
    IF length(p, id) < kmer_k + 1 THEN {}
    ELSE { i \in (kBucketPrefixLength - 1)..(length(p, id) + kBucketPrefixLength) :
             i - (kBucketPrefixLength - 1) + kmer_k <= length(p, id) }

\* the loop positions i of lv1_fill_offset for one sequence
SeqLoopRange(p, id) ==
    IF length(p, id) < kmer_k + 1 THEN {}
    ELSE { i \in (kBucketPrefixLength - 1)..(length(p, id) + kBucketPrefixLength) :
             i - (kBucketPrefixLength - 1) + kmer_k - 1 <= length(p, id) }

\* the occurrences one sequence generates, in the order the loops visit them
RECURSIVE SeqOccFrom(_, _, _)
SeqOccFrom(p, id, i) ==
    IF i \notin SeqLoopRange(p, id) THEN <<>>
    ELSE << [key |-> FwdKey(p, id, i), seq_id |-> id,
             offset |-> i - kBucketPrefixLength + 1, strand |-> 0, edge_type |-> 0],
            [key |-> RevKey(p, id, i), seq_id |-> id,
             offset |-> i - kBucketPrefixLength + 1, strand |-> 1, edge_type |-> 0] >>
         \o SeqOccFrom(p, id, i + 1)

SeqOcc(p, id) == SeqOccFrom(p, id, kBucketPrefixLength - 1)

\* counting that takes the multiplicity for the edge at offset 0 as well
Counting_AlsoAtStart(offset, seq_len, m) ==
    IF offset + kmer_k <= seq_len THEN m ELSE 0

\* counting: the multiplicity of the sequence for an edge inside it, 0 for
\* the two edges that straddle a $
Counting(offset, seq_len, m) ==
    IF offset > 0 /\ offset + kmer_k <= seq_len THEN m ELSE 0

\* the assertions of lv2_extract_substr on num_chars_to_copy: kmer_k at
\* offset 0, kmer_k - 1 when the offset on the normal strand is negative
ExtractAssertionsSeq(p, full_offset) ==
    LET seq_id == get_id(p, full_offset \div 2)
        offset == (full_offset \div 2) - get_start_index(p, seq_id)
        strand == full_offset % 2
        seq_len == length(p, seq_id)
        num_chars_to_copy == kmer_k - (IF offset + kmer_k > seq_len THEN 1 ELSE 0)
        roff == seq_len - 1 - offset - (kmer_k - 1)
    IN  /\ offset = 0 => num_chars_to_copy = kmer_k
        /\ (strand = 1 /\ roff < 0) => num_chars_to_copy = kmer_k - 1

\* lv2_extract_substr: the level-2 item of a decoded full offset
ExtractItemSeq(p, mul, full_offset) ==
    LET seq_id == get_id(p, full_offset \div 2)
        offset == (full_offset \div 2) - get_start_index(p, seq_id)
        strand == full_offset % 2
        seq_len == length(p, seq_id)
        num_chars_to_copy == kmer_k - (IF offset + kmer_k > seq_len THEN 1 ELSE 0)
        counting == Counting(offset, seq_len, mul[seq_id + 1])
        roff == seq_len - 1 - offset - (kmer_k - 1)
    IN  [ chars |-> IF strand = 0
                    THEN CopySubstring(p, seq_id, offset, num_chars_to_copy)
                    ELSE CopySubstringRC(p, seq_id, IF roff < 0 THEN 0 ELSE roff,
                                         num_chars_to_copy),
          non_dollar |-> IF num_chars_to_copy = kmer_k THEN 1 ELSE 0,
          prev |-> IF offset = 0 THEN kSentinelValue
                   ELSE IF strand = 0 THEN get_base(p, seq_id, offset - 1)
                   ELSE 3 - get_base(p, seq_id, seq_len - 1 - offset + 1),
          inv |-> Max(0, kMaxMulti_t - counting) ]

(***************************************************************************)
(* Read pipeline (cx1_read2sdbg_s2.cpp)                                    *)
(***************************************************************************)
EncodeOffset(read_id, offset, strand, length_num_bits, edge_type) ==
    read_id * (2 ^ (length_num_bits + 3)) + offset * 8 + edge_type * 2 + strand

s2_encode_lv1_diff_base(read_id) == EncodeOffset(read_id, 0, 0, offset_num_bits, 0)

\* is_solid is indexed by num_k1_per_read * read_id + position
num_k1_per_read == MaxExtraLen + 1

\* GenericKmer edge: the (k+1)-mer at position e of a read, chars 0 .. k
EdgeAt(p, id, e) == [j \in 0..kmer_k |-> get_base(p, id, e + j)]
\* its reverse complement
ReverseComplement(edge) == [j \in 0..kmer_k |-> 3 - edge[kmer_k - j]]

\* (edge.data_[0] << 2 * from) >> ...: the bucket of the chars from .. from + B - 1
RECURSIVE PrefixKey(_, _, _)
PrefixKey(edge, from, n) ==
    IF n = 0 THEN 0 ELSE PrefixKey(edge, from, n - 1) * 4 + edge[from + n - 1]

ReadOccEntry(key, id, e, strand, edge_type) ==
    [key |-> key, seq_id |-> id, offset |-> e, strand |-> strand, edge_type |-> edge_type]

\* rev_edge.cmp(edge, kmer_k + 1) == 0
IsPalindrome_Never(edge, rev_edge) == FALSE
IsPalindrome(edge, rev_edge) == rev_edge = edge

\* the occurrences of the (k+1)-mer at position e of read id, in the order
\* s2_lv1_fill_offset saves them
ReadOccAt(p, is_solid, id, e) ==
    LET edge == EdgeAt(p, id, e)
        rev_edge == ReverseComplement(edge)
        is_palindrome == IsPalindrome(edge, rev_edge)
        B == kBucketPrefixLength
        full_offset == num_k1_per_read * id + e
        left == e = 0 \/ ~is_solid[full_offset - 1 + 1]
        right == e + kmer_k = length(p, id) - 1 \/ ~is_solid[full_offset + 1 + 1]
    IN  IF ~is_solid[full_offset + 1] THEN <<>>
        ELSE (IF left
              THEN <<ReadOccEntry(PrefixKey(edge, 0, B), id, e, 0, 0)>>
                   \o (IF is_palindrome THEN <<>>
                       ELSE <<ReadOccEntry(PrefixKey(rev_edge, 2, B), id, e, 1, 0)>>)
              ELSE <<>>)
             \o <<ReadOccEntry(PrefixKey(edge, 1, B), id, e, 0, 1)>>
             \o (IF is_palindrome THEN <<>>
                 ELSE <<ReadOccEntry(PrefixKey(rev_edge, 1, B), id, e, 1, 1)>>)
             \o (IF right
                 THEN <<ReadOccEntry(PrefixKey(edge, 2, B), id, e, 0, 2)>>
                      \o (IF is_palindrome THEN <<>>
                          ELSE <<ReadOccEntry(PrefixKey(rev_edge, 0, B), id, e, 1, 2)>>)
                 ELSE <<>>)

RECURSIVE ReadOccFrom(_, _, _, _)
ReadOccFrom(p, is_solid, id, e) ==
    IF e + kmer_k >= length(p, id) THEN <<>>
    ELSE ReadOccAt(p, is_solid, id, e) \o ReadOccFrom(p, is_solid, id, e + 1)

ReadOcc(p, is_solid, id) ==
    IF length(p, id) < kmer_k + 1 THEN <<>> ELSE ReadOccFrom(p, is_solid, id, 0)

\* s2_lv2_extract_substr: the level-2 item of a decoded full offset
ExtractItemRead(p, full_offset) ==
    LET read_id == full_offset \div (2 ^ (offset_num_bits + 3))
        offset == (full_offset \div 8) % (2 ^ offset_num_bits)
        strand == full_offset % 2
        edge_type == (full_offset \div 2) % 4
        n == IF (strand = 0 /\ edge_type = 2) \/ (strand = 1 /\ edge_type = 0)
             THEN kmer_k - 1 ELSE kmer_k
        prev == IF strand = 0
                THEN CASE edge_type = 0 -> kSentinelValue
                       [] edge_type = 1 -> get_base(p, read_id, offset)
                       [] OTHER -> get_base(p, read_id, offset + 1)
                ELSE CASE edge_type = 0 -> 3 - get_base(p, read_id, offset + kmer_k - 1)
                       [] edge_type = 1 -> 3 - get_base(p, read_id, offset + kmer_k)
                       [] OTHER -> kSentinelValue
        off == IF strand = 0
               THEN offset + edge_type
               ELSE IF edge_type = 2 THEN offset + 1 ELSE offset
    IN  [ chars |-> IF strand = 0 THEN CopySubstring(p, read_id, off, n)
                    ELSE CopySubstringRC(p, read_id, off, n),
          non_dollar |-> IF n = kmer_k THEN 1 ELSE 0,
          prev |-> prev,
          inv |-> 0 ]

(***************************************************************************)
(* Level-2 item accessors.  An item is the packed substring record:        *)
(* chars (k base slots, MSB first), the has-char flag, the BWT char and,   *)
(* in the edge pipeline, the inverted multiplicity.                        *)
(***************************************************************************)
IsDiffKMinusOneMer(item1, item2) ==
    \E c \in 1..(kmer_k - 1) : item1.chars[c] # item2.chars[c]

ExtractFirstChar(item) == item.chars[1]

Extract_a(item) ==
    IF item.non_dollar = 1 THEN item.chars[kmer_k] ELSE kSentinelValue

Extract_b(item) == item.prev

ExtractCounting(item) == item.inv % (kMaxMulti_t + 1)

\* the sort key: the item's words compared as unsigned integers, MSB first
RECURSIVE CharsValue(_, _)
CharsValue(chars, n) ==
    IF n = 0 THEN 0 ELSE CharsValue(chars, n - 1) * 4 + chars[n]

ItemKey(item) ==
    ((CharsValue(item.chars, kmer_k) * 2 + item.non_dollar) * 8 + item.prev)
        * (kMaxMulti_t + 1) + item.inv

\* lv2_cpu_sort: a permutation (0-based item indices) that lists the items
\* in non-decreasing key order
RECURSIVE SortPerm(_, _)
SortPerm(items, todo) ==
    IF todo = {} THEN <<>>
    ELSE LET m == CHOOSE i \in todo :
                    \A j \in todo : \/ ItemKey(items[i]) < ItemKey(items[j])
                                    \/ (ItemKey(items[i]) = ItemKey(items[j]) /\ i <= j)
         IN  <<m - 1>> \o SortPerm(items, todo \ {m})

lv2_cpu_sort(items) == SortPerm(items, DOMAIN items)

\* item i (0-based) of a buffer read through its permutation
ItemAt(substrings, perm, i) == substrings[perm[i + 1] + 1]

(***************************************************************************)
(* SdBG emitter, marking part (lv2_output / s2_lv2_output before the       *)
(* barrier).  D is the sorted batch: D[i + 1] is item i.                   *)
(***************************************************************************)
RECURSIVE GroupEnd(_, _, _, _)
GroupEnd(D, start_idx, end_idx, op_end_index) ==
    IF end_idx < op_end_index /\ ~IsDiffKMinusOneMer(D[start_idx + 1], D[end_idx + 1])
    THEN GroupEnd(D, start_idx, end_idx + 1, op_end_index)
    ELSE end_idx

\* first loop over a group: has_solid_a, has_solid_b (bit sets) and last_a
RECURSIVE ScanGroup(_, _, _, _)
ScanGroup(D, i, end_idx, st) ==
    IF i >= end_idx THEN st
    ELSE LET a == Extract_a(D[i + 1])
             b == Extract_b(D[i + 1])
             solid == a # kSentinelValue /\ b # kSentinelValue
             sa == IF solid THEN st.has_solid_a \cup {a} ELSE st.has_solid_a
             sb == IF solid THEN st.has_solid_b \cup {b} ELSE st.has_solid_b
             la == IF a # kSentinelValue /\ (b # kSentinelValue \/ a \notin sa)
                   THEN [st.last_a EXCEPT ![a] = i] ELSE st.last_a
         IN  ScanGroup(D, i + 1, end_idx,
                       [has_solid_a |-> sa, has_solid_b |-> sb, last_a |-> la])

\* the end j of the (a, b) sub-group that starts at i
RECURSIVE SubGroupEnd(_, _, _, _)
SubGroupEnd(D, i, j, end_idx) ==
    IF j < end_idx /\ Extract_a(D[j + 1]) = Extract_a(D[i + 1])
                   /\ Extract_b(D[j + 1]) = Extract_b(D[i + 1])
    THEN SubGroupEnd(D, i, j + 1, end_idx)
    ELSE j

\* ComputeW without the duplicate marking: every record of b gets b + 1
ComputeW_NoDup(b, outputed_b) ==
    IF b = kSentinelValue THEN 0 ELSE b + 1

\* W of a record with BWT char b, given the b's already output in the group
ComputeW(b, outputed_b) ==
    IF b = kSentinelValue THEN 0
    ELSE IF b \in outputed_b THEN b + 5 ELSE b + 1

\* ComputeLast that compares with the first item of the next sub-group
ComputeLast_OffByOne(a, last_a, j) ==
    IF a = kSentinelValue THEN 0
    ELSE IF last_a[a] = j THEN 1 ELSE 0

\* LAST of a record whose sub-group is [i, j)
ComputeLast(a, last_a, j) ==
    IF a = kSentinelValue THEN 0
    ELSE IF last_a[a] = j - 1 THEN 1 ELSE 0

\* Suppressed without the b == $ rule
Suppressed_OnlyDollarA(a, b, st) ==
    a = kSentinelValue /\ b \in st.has_solid_b

\* whether the sub-group (a, b) is dropped
Suppressed(a, b, st) ==
    \/ (a = kSentinelValue /\ b \in st.has_solid_b)
    \/ (b = kSentinelValue /\ a \in st.has_solid_a)

\* ReadCount that forgets to clear the count of a b = $ record
ReadCount_KeepDollarB(a, b, i, j) ==
    IF a = kSentinelValue THEN 0 ELSE Min(j - i, kMaxMulti_t)

\* the count the read pipeline attaches to the record of sub-group [i, j)
ReadCount(a, b, i, j) ==
    IF a = kSentinelValue \/ b = kSentinelValue THEN 0
    ELSE Min(j - i, kMaxMulti_t)

\* second loop over a group: one mark per sub-group that is not dropped
RECURSIVE LabelGroup(_, _, _, _, _)
LabelGroup(D, i, end_idx, st, outputed_b) ==
    IF i >= end_idx THEN <<>>
    ELSE LET a == Extract_a(D[i + 1])
             b == Extract_b(D[i + 1])
             j == SubGroupEnd(D, i, i + 1, end_idx)
         IN  IF Suppressed(a, b, st)
             THEN LabelGroup(D, j, end_idx, st, outputed_b)
             ELSE << [ i |-> i,
                       w |-> ComputeW(b, outputed_b),
                       last |-> ComputeLast(a, st.last_a, j),
                       is_dollar |-> IF a = kSentinelValue THEN 1 ELSE 0,
                       count |-> ReadCount(a, b, i, j) ] >>
                  \o LabelGroup(D, j, end_idx, st, outputed_b \cup {b})

\* the outer loop of one output worker over its range [start_idx, op_end_index)
RECURSIVE MarkRange(_, _, _, _)
MarkRange(D, start_idx, op_end_index, last_a) ==
    IF start_idx >= op_end_index THEN <<>>
    ELSE LET end_idx == GroupEnd(D, start_idx, start_idx + 1, op_end_index)
             st == ScanGroup(D, start_idx, end_idx,
                             [has_solid_a |-> {}, has_solid_b |-> {}, last_a |-> last_a])
         IN  LabelGroup(D, start_idx, end_idx, st, {})
             \o MarkRange(D, end_idx, op_end_index, st.last_a)

\* last_a[4] of a worker before its first group (never read before written)
NoLastA == [a \in 0..3 |-> -1]

\* lv2_aux[i] = w | (last << 4) | (is_dollar << 5) | (1 << 7)
PackAux(m) == m.w + 16 * m.last + 32 * m.is_dollar + 128

Buckets == 0..(kNumBuckets - 1)
CpuThreads == 0..(input.num_cpu_threads - 1)
OutputThreads == 0..(input.num_output_threads - 1)

(***************************************************************************)
(* Inputs.                                                                 *)
(***************************************************************************)
InputAlphabet == {0, 1}
MultiValues == {1, 300}

Sequences3 ==
    UNION { [1..n -> InputAlphabet] : n \in (BaseK + 1)..(BaseK + 1 + MaxExtraLen) }

\* packages of 1 .. MaxSeqs sequences, listed in non-decreasing order
RECURSIVE SeqValue(_, _)
SeqValue(q, n) == IF n = 0 THEN 0 ELSE SeqValue(q, n - 1) * 4 + q[n] + 1

Packages ==
    UNION { { p \in [1..n -> Sequences3] :
                \A j \in 1..(n - 1) : SeqValue(p[j], Len(p[j])) <= SeqValue(p[j + 1], Len(p[j + 1])) } :
            n \in 1..MaxSeqs }

(***************************************************************************)
(* CX1 framework: read partitions, bucket sizes, level-1 / level-2 ranges. *)
(***************************************************************************)
\* prepare_rp_and_bp_: worker t of T gets the sequence ids [start, end)
rp_start_id_of(t, T, num_items) == t * (num_items \div T)
rp_end_id_of(t, T, num_items) ==
    IF t < T - 1 THEN (t + 1) * (num_items \div T) ELSE num_items

\* kNumBuckets of the pipeline
NumBuckets(inp) == IF inp.pipeline = "seq" THEN kNumBuckets ELSE kNumBucketsRead

\* the occurrences of one sequence, in the order both scans visit them
OccOf(inp, id) ==
    IF inp.pipeline = "seq" THEN SeqOcc(inp.package, id)
    ELSE ReadOcc(inp.package, inp.is_solid, id)

\* the occurrences of the sequences [id, end_id), in the workers' loop order
RECURSIVE RangeOcc(_, _, _)
RangeOcc(inp, id, end_id) ==
    IF id >= end_id THEN <<>> ELSE OccOf(inp, id) \o RangeOcc(inp, id + 1, end_id)

\* the absolute (full) offset of an occurrence
FullOffset(inp, o) ==
    IF inp.pipeline = "seq"
    THEN EncodeEdgeOffset(o.seq_id, o.offset, o.strand, inp.package)
    ELSE EncodeOffset(o.seq_id, o.offset, o.strand, offset_num_bits, o.edge_type)

DiffBase(inp, read_id) ==
    IF inp.pipeline = "seq" THEN encode_lv1_diff_base(read_id, inp.package)
    ELSE s2_encode_lv1_diff_base(read_id)

\* the level-2 item of a full offset
ExtractItem(inp, full_offset) ==
    IF inp.pipeline = "seq"
    THEN ExtractItemSeq(inp.package, inp.multiplicity, full_offset)
    ELSE ExtractItemRead(inp.package, full_offset)

\* the loop of lv0_calc_bucket_size that stops two positions early
SeqLastPosition_Short(p, id) == length(p, id) - kmer_k + kBucketPrefixLength - 2

\* the last position i for which the loops over a sequence run:
\* i - (kBucketPrefixLength - 1) + kmer_k - 1 <= seq_len
SeqLastPosition(p, id) == length(p, id) - kmer_k + kBucketPrefixLength

\* lv0_calc_bucket_size: the buckets one sequence increments, the forward
\* loop first, then the loop over the reverse complement
SeqBucketKeys(p, id) ==
    IF length(p, id) < kmer_k + 1 THEN <<>>
    ELSE LET n == SeqLastPosition(p, id) - (kBucketPrefixLength - 1) + 1
         IN  [j \in 1..n |-> FwdKey(p, id, kBucketPrefixLength - 1 + j - 1)]
             \o [j \in 1..n |-> RevKey(p, id, kBucketPrefixLength - 1 + j - 1)]

\* s2_lv0_calc_bucket_size: the buckets the (k+1)-mer at position e of a
\* read increments, in the order of the code
ReadBucketKeysAt(p, is_solid, id, e) ==
    LET edge == EdgeAt(p, id, e)
        rev_edge == ReverseComplement(edge)
        is_palindrome == IsPalindrome(edge, rev_edge)
        B == kBucketPrefixLength
        full_offset == num_k1_per_read * id + e
        left == e = 0 \/ ~is_solid[full_offset - 1 + 1]
        right == e + kmer_k = length(p, id) - 1 \/ ~is_solid[full_offset + 1 + 1]
    IN  IF ~is_solid[full_offset + 1] THEN <<>>
        ELSE <<PrefixKey(edge, 1, B)>>
             \o (IF is_palindrome THEN <<>> ELSE <<PrefixKey(rev_edge, 1, B)>>)
             \o (IF left
                 THEN <<PrefixKey(edge, 0, B)>>
                      \o (IF is_palindrome THEN <<>> ELSE <<PrefixKey(rev_edge, 2, B)>>)
                 ELSE <<>>)
             \o (IF right
                 THEN <<PrefixKey(edge, 2, B)>>
                      \o (IF is_palindrome THEN <<>> ELSE <<PrefixKey(rev_edge, 0, B)>>)
                 ELSE <<>>)

RECURSIVE ReadBucketKeysFrom(_, _, _, _)
ReadBucketKeysFrom(p, is_solid, id, e) ==
    IF e + kmer_k >= length(p, id) THEN <<>>
    ELSE ReadBucketKeysAt(p, is_solid, id, e) \o ReadBucketKeysFrom(p, is_solid, id, e + 1)

\* the buckets the sequences [id, end_id) increment in the bucket-size pass
RECURSIVE RangeBucketKeys(_, _, _)
RangeBucketKeys(inp, id, end_id) ==
    IF id >= end_id THEN <<>>
    ELSE (IF inp.pipeline = "seq" THEN SeqBucketKeys(inp.package, id)
          ELSE IF length(inp.package, id) < inp.kmer_k + 1 THEN <<>>
          ELSE ReadBucketKeysFrom(inp.package, inp.is_solid, id, 0))
         \o RangeBucketKeys(inp, id + 1, end_id)

\* number of entries of keys that are b
RECURSIVE CountKey(_, _)
CountKey(keys, b) ==
    IF keys = <<>> THEN 0
    ELSE (IF Head(keys) = b THEN 1 ELSE 0) + CountKey(Tail(keys), b)

\* lv0_calc_bucket_size / s2_lv0_calc_bucket_size of one worker
lv0_calc_bucket_size(inp, start_id, end_id) ==
    [b \in 0..(NumBuckets(inp) - 1) |-> CountKey(RangeBucketKeys(inp, start_id, end_id), b)]

\* the assertions of the extractor hold for a full offset (the read
\* pipeline's extractor asserts only on impossible edge types)
ExtractAssertions(inp, full_offset) ==
    inp.pipeline = "seq" => ExtractAssertionsSeq(inp.package, full_offset)

\* find_end_buckets_: the largest end such that buckets [start, end) hold at
\* most max_items items; returns <<end, number of items>>
RECURSIVE find_end_buckets(_, _, _, _, _, _)
find_end_buckets(sizes, start, end, end_limit, max_items, num) ==
    IF end < end_limit /\ num + sizes[end] <= max_items
    THEN find_end_buckets(sizes, start, end + 1, end_limit, max_items, num + sizes[end])
    ELSE <<end, num>>

\* sum of f[i] over i in lo .. hi - 1
RECURSIVE SumRange(_, _, _)
SumRange(f, lo, hi) == IF lo >= hi THEN 0 ELSE f[lo] + SumRange(f, lo + 1, hi)

\* lv1_compute_offset_: slot of the first item of (worker t, bucket b) when
\* the window starts at bucket lv1_start; bucket-major, worker-minor
lv1_compute_offset(rps, lv1_start, t, b) ==
    SumSeq([u \in 1..Len(rps) |-> SumRange(rps[u].rp_bucket_sizes, lv1_start, b)])
    + SumSeq([u \in 1..t |-> rps[u].rp_bucket_sizes[b]])

\* whether key lies in [lv1_start_bucket_, lv1_end_bucket_): the sign-bit test
InWindow(key, c) == c.lv1_start_bucket <= key /\ key < c.lv1_end_bucket

\* index (0-based) of the first occurrence at or after n that is in the window,
\* Len(occ) if there is none
RECURSIVE NextInWindow(_, _, _)
NextInWindow(occ, n, c) ==
    IF n >= Len(occ) THEN Len(occ)
    ELSE IF InWindow(occ[n + 1].key, c) THEN n
    ELSE NextInWindow(occ, n + 1, c)

(***************************************************************************)
(* Level-2 extraction: decoding the level-1 slots.                         *)
(***************************************************************************)
\* one slot: a differential added to the running offset, or a negative
\* index into lv1_items_special_
\* DecodeSlot that treats every slot as a differential
DecodeSlot_AlwaysAdd(slot, full_offset, special) ==
    full_offset + slot

DecodeSlot(slot, full_offset, special) ==
    IF slot >= 0 THEN full_offset + slot ELSE special[(-1 - slot) + 1]

\* the num slots that start at lv1_p (0-based), decoded from full_offset
RECURSIVE DecodeRun(_, _, _, _, _)
DecodeRun(items, special, lv1_p, num, full_offset) ==
    IF num = 0 THEN <<>>
    ELSE LET fo == DecodeSlot(items[lv1_p + 1], full_offset, special)
         IN  <<fo>> \o DecodeRun(items, special, lv1_p + 1, num - 1, fo)

\* the loops over bucket and worker of lv2_extract_substr, with the running
\* pointer lv1_p; the full offsets in the order the items are materialised
RECURSIVE DecodeWalk(_, _, _, _, _, _)
DecodeWalk(items, special, rps, bucket, end_bucket, lv1_p) ==
    IF bucket >= end_bucket THEN <<>>
    ELSE LET Walk[t \in 1..(Len(rps) + 1)] ==
                 IF t > Len(rps) THEN <<>>
                 ELSE DecodeRun(items, special,
                                lv1_p + SumSeq([u \in 1..(t - 1) |-> rps[u].rp_bucket_sizes[bucket]]),
                                rps[t].rp_bucket_sizes[bucket],
                                rps[t].rp_lv1_differential_base)
                      \o Walk[t + 1]
         IN  Walk[1] \o DecodeWalk(items, special, rps, bucket + 1, end_bucket,
                                   lv1_p + SumSeq([u \in 1..Len(rps) |-> rps[u].rp_bucket_sizes[bucket]]))

lv2_extract_substr(inp, items, special, rps, start_bucket, end_bucket) ==
    LET fos == DecodeWalk(items, special, rps, start_bucket, end_bucket,
                          rps[1].rp_bucket_offsets[start_bucket])
    IN  [n \in 1..Len(fos) |-> ExtractItem(inp, fos[n])]

(***************************************************************************)
(* lv2_pre_output_partition / s2_lv2_pre_output_partition                  *)
(***************************************************************************)
\* ExtendEnd that leaves this_end_index where the division put it
ExtendEnd_Stay(D, this_end_index, num_items) == this_end_index

\* the while loop that moves this_end_index to the end of its group
RECURSIVE ExtendEnd(_, _, _)
ExtendEnd(D, this_end_index, num_items) ==
    IF this_end_index < num_items
       /\ ~IsDiffKMinusOneMer(D[this_end_index + 1], D[this_end_index])
    THEN ExtendEnd(D, this_end_index + 1, num_items)
    ELSE this_end_index

\* op_[0 .. T-1] as a sequence of [op_start_index, op_end_index]
RECURSIVE PartitionFrom(_, _, _, _, _)
PartitionFrom(D, num_items, T, t, last_end_index) ==
    IF t = T - 1
    THEN << [op_start_index |-> last_end_index, op_end_index |-> num_items] >>
    ELSE LET items_per_thread == num_items \div T
             e0 == Min(last_end_index + items_per_thread, num_items)
             this_end_index == IF e0 > 0 THEN ExtendEnd(D, e0, num_items) ELSE e0
         IN  << [op_start_index |-> last_end_index, op_end_index |-> this_end_index] >>
             \o PartitionFrom(D, num_items, T, t + 1, this_end_index)

lv2_pre_output_partition(D, num_items, T) == PartitionFrom(D, num_items, T, 0, 0)

(***************************************************************************)
(* Initial state.                                                          *)
(***************************************************************************)
\* mem_flag: 0 = min memory, 1 = auto
MemFlags == {0, 1}

\* the filler workers and the output workers never run at the same time:
\* at most one of the two thread counts exceeds 1
ThreadCounts ==
    { c \in (1..MaxCpuThreads) \X (1..MaxOutputThreads) : c[1] = 1 \/ c[2] = 1 }

\* multiplicity[seq_id] is MultiValues for the first sequence, 1 for the others
Multiplicities(p) ==
    { [j \in 1..Len(p) |-> IF j = 1 THEN m ELSE 1] : m \in MultiValues }

\* is_solid: one bit per (k+1)-mer; the first may be non-solid
SolidBits(p, k) ==
    { [j \in 1..(Len(p) * num_k1_per_read) |->
          IF j = 1 THEN s
          ELSE ((j - 1) % num_k1_per_read) + k < Len(p[((j - 1) \div num_k1_per_read) + 1])] :
      s \in BOOLEAN }

SeqInputs ==
    { [pipeline |-> "seq", kmer_k |-> BaseK, package |-> x[1], multiplicity |-> x[2],
       is_solid |-> <<>>,
       num_cpu_threads |-> c[1], num_output_threads |-> c[2], mem_flag |-> f] :
      x \in UNION { {<<p, m>> : m \in Multiplicities(p)} : p \in Packages },
      c \in ThreadCounts, f \in MemFlags }

ReadInputs ==
    { [pipeline |-> "read", kmer_k |-> BaseK, package |-> x[1], multiplicity |-> <<>>,
       is_solid |-> x[2],
       num_cpu_threads |-> c[1], num_output_threads |-> c[2], mem_flag |-> f] :
      x \in UNION { {<<p, b>> : b \in SolidBits(p, BaseK)} : p \in Packages },
      c \in ThreadCounts, f \in MemFlags }

\* every worker has at least one sequence, and some (k+1)-mer is solid
WellFormed(inp) ==
    /\ inp.num_cpu_threads <= Len(inp.package)
    /\ inp.pipeline = "read" => \E j \in 1..Len(inp.is_solid) : inp.is_solid[j]

Inputs == { inp \in SeqInputs \cup ReadInputs : WellFormed(inp) }

ZeroBuckets(inp) == [b \in 0..(NumBuckets(inp) - 1) |-> 0]

\* prepare_rp_and_bp_
InitRp(inp) ==
    [t \in 1..inp.num_cpu_threads |->
        LET s == rp_start_id_of(t - 1, inp.num_cpu_threads, Len(inp.package))
        IN  [ rp_start_id |-> s,
              rp_end_id |-> rp_end_id_of(t - 1, inp.num_cpu_threads, Len(inp.package)),
              rp_lv1_differential_base |-> DiffBase(inp, s),
              rp_bucket_sizes |-> ZeroBuckets(inp),
              rp_bucket_offsets |-> ZeroBuckets(inp),
              prev_full_offsets |-> ZeroBuckets(inp),
              next |-> 0,
              running |-> FALSE ] ]

InitOut(inp) ==
    [t \in 1..inp.num_output_threads |-> [pc |-> "idle", tid |-> 0, i |-> 0, snap |-> <<>>]]

InitG ==
    [ cur_suffix_first_char |-> -1, total_number_edges |-> 0, num_dollar_nodes |-> 0,
      num_ones_in_last |-> 0, num_dummy_edges |-> 0,
      num_chars_in_w |-> [w \in 0..8 |-> 0] ]

\* the state after the CX1 object is constructed, for an input of `inputs'
CX1Init(inputs) ==
    /\ input \in inputs
    /\ pc = "lv0"
    /\ cx1 = [ bucket_sizes |-> ZeroBuckets(input), max_lv1_items |-> 0,
               max_lv2_items |-> 0, lv1_start_bucket |-> 0, lv1_end_bucket |-> 0,
               lv1_num_items |-> 0, lv2_start_bucket |-> 0, lv2_end_bucket |-> 0,
               lv2_num_items |-> 0, lv1_items_special |-> <<>>,
               op |-> [t \in 1..input.num_output_threads |->
                          [op_start_index |-> 0, op_end_index |-> 0]] ]
    /\ rp = InitRp(input)
    /\ lv1_items = <<>>
    /\ lv2 = [ lv2_substrings |-> <<>>, permutation |-> <<>>,
               lv2_substrings_db |-> <<>>, permutation_db |-> <<>>,
               lv2_num_items_db |-> 0, lv2_aux |-> <<>>,
               lv2_output_items |-> [t \in 1..input.num_output_threads |-> <<>>] ]
    /\ out = InitOut(input)
    /\ g = InitG
    /\ files = [f |-> <<>>, w |-> <<>>, last |-> <<>>, isd |-> <<>>,
                mul |-> <<>>, mul2 |-> <<>>, dn |-> <<>>]
    /\ emitted = <<>>

Init ==
    /\ CX1Init(Inputs)
    /\ driver = NotStarted
    /\ mercy = NotStarted
    /\ dbg = NotStarted

(***************************************************************************)
(* Main thread: CX1::run up to the level-2 batches.                        *)
(***************************************************************************)
\* a main thread that does not wait for the output workers
OutputJoined_NoWait == TRUE

\* the output workers of the previous batch have been joined
OutputJoined == \A t \in 1..Len(out) : out[t].pc \in {"idle", "done"}

\* lv0_calc_bucket_size of every worker, then the sum into bucket_sizes_
Lv0CalcBucketSize ==
    /\ pc = "lv0"
    /\ rp' = [t \in 1..Len(rp) |->
                [rp[t] EXCEPT !.rp_bucket_sizes =
                    lv0_calc_bucket_size(input, rp[t].rp_start_id, rp[t].rp_end_id)]]
    /\ cx1' = [cx1 EXCEPT !.bucket_sizes =
                 [b \in 0..(NumBuckets(input) - 1) |->
                     SumSeq([t \in 1..Len(rp) |-> rp'[t].rp_bucket_sizes[b]])]]
    /\ pc' = "init"
    /\ UNCHANGED <<side, input, lv1_items, lv2, out, g, files, emitted>>

\* init_global_and_set_cx1 / s2_init_global_and_set_cx1
init_global_and_set_cx1 ==
    /\ pc = "init"
    /\ LET nb == NumBuckets(input)
           max_bucket_size ==
               CHOOSE m \in {cx1.bucket_sizes[b] : b \in 0..(nb - 1)} :
                   \A b \in 0..(nb - 1) : cx1.bucket_sizes[b] <= m
           tot_bucket_size == SumRange(cx1.bucket_sizes, 0, nb)
           min_lv2 == Max(max_bucket_size, kMinLv2BatchSize)
           scan_time == IF input.mem_flag = 1 THEN kDefaultLv1ScanTime ELSE kMaxLv1ScanTime
       IN  cx1' = [cx1 EXCEPT
                     !.max_lv2_items = min_lv2,
                     !.max_lv1_items =
                         Max(min_lv2, (2 * tot_bucket_size) \div (2 * scan_time - 1))]
    /\ g' = InitG
    /\ files' = [files EXCEPT !.f = <<-1>>, !.dn = <<words_per_dummy_node>>]
    /\ pc' = "lv1"
    /\ UNCHANGED <<side, input, rp, lv1_items, lv2, out, emitted>>

\* start of a level-1 window: find_end_buckets_, clear the side table,
\* lv1_compute_offset_, start the filler workers
Lv1Start ==
    /\ pc = "lv1"
    /\ cx1.lv1_start_bucket < NumBuckets(input)
    /\ LET fe == find_end_buckets(cx1.bucket_sizes, cx1.lv1_start_bucket,
                                  cx1.lv1_start_bucket, NumBuckets(input),
                                  cx1.max_lv1_items, 0)
           c == [cx1 EXCEPT !.lv1_end_bucket = fe[1], !.lv1_num_items = fe[2],
                            !.lv1_items_special = <<>>]
       IN  /\ cx1' = c
           /\ rp' = [t \in 1..Len(rp) |->
                       LET occ == RangeOcc(input, rp[t].rp_start_id, rp[t].rp_end_id)
                           n == NextInWindow(occ, 0, c)
                       IN  [rp[t] EXCEPT
                              !.rp_bucket_offsets =
                                  [b \in 0..(NumBuckets(input) - 1) |->
                                      IF InWindow(b, c)
                                      THEN lv1_compute_offset(rp, c.lv1_start_bucket, t - 1, b)
                                      ELSE @[b]],
                              !.prev_full_offsets =
                                  [b \in 0..(NumBuckets(input) - 1) |->
                                      IF InWindow(b, c)
                                      THEN rp[t].rp_lv1_differential_base ELSE @[b]],
                              !.next = n,
                              !.running = n < Len(occ)]]
           /\ lv1_items' = [i \in 1..fe[2] |-> 0]
    /\ pc' = "fill"
    /\ UNCHANGED <<side, input, lv2, out, g, files, emitted>>

\* the level-1 record stored for a side-table entry that forgets the bias
SideTableRecord_NoBias(special) == -Len(special)

\* -lv1_items_special_.size() - 1, read inside the critical section
SideTableRecord(special) == -Len(special) - 1

\* one CHECK_AND_SAVE_OFFSET of worker t for its next occurrence in the window;
\* the size read and the push_back are under lv1_items_scanning_lock, every
\* other access is to the worker's own slots, so the macro is one step
lv1_fill_offset(t) ==
    /\ pc = "fill"
    /\ rp[t].running
    /\ LET occ == RangeOcc(input, rp[t].rp_start_id, rp[t].rp_end_id)
           o == occ[rp[t].next + 1]
           key == o.key
           full_offset == FullOffset(input, o)
           differential == full_offset - rp[t].prev_full_offsets[key]
           slot == rp[t].rp_bucket_offsets[key]
           n == NextInWindow(occ, rp[t].next + 1, cx1)
       IN  IF differential <= kDifferentialLimit /\ differential < 0
           THEN \* assert(differential >= 0) fails
                /\ pc' = "assert_failed"
                /\ UNCHANGED <<cx1, rp, lv1_items>>
           ELSE /\ IF differential > kDifferentialLimit
                   THEN /\ lv1_items' = [lv1_items EXCEPT
                                           ![slot + 1] = SideTableRecord(cx1.lv1_items_special)]
                        /\ cx1' = [cx1 EXCEPT !.lv1_items_special = Append(@, full_offset)]
                   ELSE /\ lv1_items' = [lv1_items EXCEPT ![slot + 1] = differential]
                        /\ cx1' = cx1
                /\ rp' = [rp EXCEPT ![t] =
                            [@ EXCEPT !.rp_bucket_offsets[key] = @ + 1,
                                      !.prev_full_offsets[key] = full_offset,
                                      !.next = n,
                                      !.running = n < Len(occ)]]
                /\ pc' = pc
    /\ UNCHANGED <<side, input, lv2, out, g, files, emitted>>

\* the filler workers are joined; lv1_compute_offset_ restores the offsets
Lv1FillJoin ==
    /\ pc = "fill"
    /\ \A t \in 1..Len(rp) : ~rp[t].running
    /\ rp' = [t \in 1..Len(rp) |->
                [rp[t] EXCEPT !.rp_bucket_offsets =
                    [b \in 0..(NumBuckets(input) - 1) |->
                        IF InWindow(b, cx1)
                        THEN lv1_compute_offset(rp, cx1.lv1_start_bucket, t - 1, b)
                        ELSE @[b]]]]
    /\ cx1' = [cx1 EXCEPT !.lv2_start_bucket = cx1.lv1_start_bucket]
    /\ pc' = "lv2"
    /\ UNCHANGED <<side, input, lv1_items, lv2, out, g, files, emitted>>

\* start of a level-2 batch: find_end_buckets_ and lv2_extract_substr
Lv2Extract ==
    /\ pc = "lv2"
    /\ cx1.lv2_start_bucket < cx1.lv1_end_bucket
    /\ LET fe == find_end_buckets(cx1.bucket_sizes, cx1.lv2_start_bucket,
                                  cx1.lv2_start_bucket, cx1.lv1_end_bucket,
                                  cx1.max_lv2_items, 0)
           fos == DecodeWalk(lv1_items, cx1.lv1_items_special, rp, cx1.lv2_start_bucket,
                             fe[1], rp[1].rp_bucket_offsets[cx1.lv2_start_bucket])
       IN  /\ cx1' = [cx1 EXCEPT !.lv2_end_bucket = fe[1], !.lv2_num_items = fe[2]]
           /\ IF \E n \in 1..Len(fos) : ~ExtractAssertions(input, fos[n])
              THEN \* an assertion on num_chars_to_copy fails
                   /\ pc' = "assert_failed"
                   /\ lv2' = lv2
              ELSE /\ lv2' = [lv2 EXCEPT
                                !.lv2_substrings =
                                    lv2_extract_substr(input, lv1_items, cx1.lv1_items_special,
                                                       rp, cx1.lv2_start_bucket, fe[1]),
                                !.permutation = <<>>]
                   /\ pc' = "sort"
    /\ UNCHANGED <<side, input, rp, lv1_items, out, g, files, emitted>>

\* lv2_sort / s2_lv2_sort
lv2_sort ==
    /\ pc = "sort"
    /\ lv2' = [lv2 EXCEPT !.permutation = lv2_cpu_sort(lv2.lv2_substrings)]
    /\ pc' = "pre_output"
    /\ UNCHANGED <<side, input, cx1, rp, lv1_items, out, g, files, emitted>>

\* the sorted batch the output workers read: item i is SortedDb[i + 1]
SortedOf(substrings, perm) ==
    [n \in 1..Len(perm) |-> ItemAt(substrings, perm, n - 1)]
SortedDb == SortedOf(lv2.lv2_substrings_db, lv2.permutation_db)

\* join of the previous batch's output workers, then
\* lv2_pre_output_partition and the start of the output workers
Lv2PreOutputPartition ==
    /\ pc = "pre_output"
    /\ OutputJoined
    /\ LET D == SortedOf(lv2.lv2_substrings, lv2.permutation)
           N == cx1.lv2_num_items
       IN  /\ lv2' = [lv2 EXCEPT
                        !.lv2_num_items_db = N,
                        !.lv2_substrings_db = lv2.lv2_substrings,
                        !.lv2_substrings = lv2.lv2_substrings_db,
                        !.permutation_db = lv2.permutation,
                        !.permutation = lv2.permutation_db,
                        !.lv2_aux = IF input.pipeline = "seq"
                                    THEN [i \in 1..N |-> 0] ELSE @]
           /\ cx1' = [cx1 EXCEPT
                        !.op = lv2_pre_output_partition(D, N, input.num_output_threads),
                        !.lv2_start_bucket = cx1.lv2_end_bucket]
    /\ out' = [t \in 1..Len(out) |-> [pc |-> "mark", tid |-> 0, i |-> 0, snap |-> <<>>]]
    /\ pc' = "lv2"
    /\ UNCHANGED <<side, input, rp, lv1_items, g, files, emitted>>

\* end of a level-1 window
Lv1Next ==
    /\ pc = "lv2"
    /\ cx1.lv2_start_bucket >= cx1.lv1_end_bucket
    /\ OutputJoined
    /\ cx1' = [cx1 EXCEPT !.lv1_start_bucket = cx1.lv1_end_bucket]
    /\ pc' = "lv1"
    /\ UNCHANGED <<side, input, rp, lv1_items, lv2, out, g, files, emitted>>

\* post_proc / s2_post_proc: the tail of .f
post_proc ==
    /\ pc = "lv1"
    /\ cx1.lv1_start_bucket >= NumBuckets(input)
    /\ OutputJoined
    /\ files' = [files EXCEPT
                   !.f = @ \o <<g.total_number_edges, kmer_k, g.num_dollar_nodes>>]
    /\ pc' = "done"
    /\ UNCHANGED <<side, input, cx1, rp, lv1_items, lv2, out, g, emitted>>

(***************************************************************************)
(* Output workers: lv2_output / s2_lv2_output.                             *)
(***************************************************************************)
NotAborted == pc \notin {"aborted", "assert_failed"}

\* the part before output_barrier: worker t labels the groups of its range
OutputMark(t) ==
    /\ NotAborted
    /\ out[t].pc = "mark"
    /\ LET marks == MarkRange(SortedDb, cx1.op[t].op_start_index,
                              cx1.op[t].op_end_index, NoLastA)
       IN  lv2' = IF input.pipeline = "seq"
                  THEN [lv2 EXCEPT !.lv2_aux =
                          [i \in 1..Len(@) |->
                              IF \E n \in 1..Len(marks) : marks[n].i = i - 1
                              THEN PackAux(marks[CHOOSE n \in 1..Len(marks) : marks[n].i = i - 1])
                              ELSE @[i]]]
                  ELSE [lv2 EXCEPT !.lv2_output_items[t] = marks]
    /\ out' = [out EXCEPT ![t].pc = "barrier"]
    /\ UNCHANGED <<side, input, pc, cx1, rp, lv1_items, g, files, emitted>>

\* pthread_barrier_wait(&output_barrier): all num_output_threads workers
\* have arrived; those with op_start_index == 0 enter the write section
OutputBarrier ==
    /\ NotAborted
    /\ \A t \in 1..Len(out) : out[t].pc = "barrier"
    /\ out' = [t \in 1..Len(out) |->
                 [out[t] EXCEPT !.pc = IF cx1.op[t].op_start_index = 0
                                       THEN "write" ELSE "done"]]
    /\ UNCHANGED <<side, input, pc, cx1, rp, lv1_items, lv2, g, files, emitted>>

\* the next record of a writer whose cursor is (tid, i): the next flagged
\* lv2_aux entry (edge pipeline) or the next out_item (read pipeline)
RECURSIVE NextFlagged(_, _)
NextFlagged(aux, i) ==
    IF i >= Len(aux) THEN Len(aux)
    ELSE IF aux[i + 1] >= 128 THEN i ELSE NextFlagged(aux, i + 1)

RECURSIVE NextOutItem(_, _, _)
NextOutItem(items, tid, i) ==
    IF tid >= Len(items) THEN <<tid, 0>>
    ELSE IF i < Len(items[tid + 1]) THEN <<tid, i>>
    ELSE NextOutItem(items, tid + 1, 0)

WriterNext(w) ==
    IF input.pipeline = "seq"
    THEN LET i == NextFlagged(lv2.lv2_aux, w.i)
         IN  IF i >= lv2.lv2_num_items_db THEN [found |-> FALSE]
             ELSE LET a == lv2.lv2_aux[i + 1]
                      item == SortedDb[i + 1]
                  IN  [ found |-> TRUE, tid |-> 0, i |-> i, idx |-> i, item |-> item,
                        w |-> a % 16, last |-> (a \div 16) % 2,
                        is_dollar |-> (a \div 32) % 2,
                        counting_db |-> kMaxMulti_t - Min(kMaxMulti_t, ExtractCounting(item)) ]
    ELSE LET c == NextOutItem(lv2.lv2_output_items, w.tid, w.i)
         IN  IF c[1] >= Len(lv2.lv2_output_items) THEN [found |-> FALSE]
             ELSE LET it == lv2.lv2_output_items[c[1] + 1][c[2] + 1]
                  IN  [ found |-> TRUE, tid |-> c[1], i |-> c[2], idx |-> it.i,
                        item |-> SortedDb[it.i + 1],
                        w |-> it.w, last |-> it.last, is_dollar |-> it.is_dollar,
                        counting_db |-> it.count % (kMaxMulti_t + 1) ]

\* the .f entries the while loop adds for a record with this first char
FEntries(first_char, cur, edges) ==
    [n \in 1..Max(0, first_char - cur) |-> edges]

\* write section, first half for one record: the .f loop, the W / LAST /
\* IsDollar / multiplicity writes; the unsynchronised globals
\* (cur_suffix_first_char and the counters) are read here
OutputWrite(t) ==
    /\ NotAborted
    /\ out[t].pc = "write"
    /\ LET r == WriterNext(out[t])
       IN  /\ r.found
           /\ LET fc == ExtractFirstChar(r.item)
                  e == g.total_number_edges
              IN  /\ files' = [files EXCEPT
                                 !.f = @ \o FEntries(fc, g.cur_suffix_first_char, e),
                                 !.w = Append(@, r.w),
                                 !.last = Append(@, r.last),
                                 !.isd = Append(@, r.is_dollar),
                                 !.mul = Append(@, IF r.counting_db <= kMaxMulti2_t
                                                   THEN r.counting_db ELSE kMulti2Sp),
                                 !.mul2 = IF r.counting_db <= kMaxMulti2_t THEN @
                                          ELSE Append(@, r.counting_db + e * (2 ^ kMul2Shift))]
                  /\ g' = g
                  /\ emitted' = Append(emitted,
                                   [ item |-> r.item, w |-> r.w, last |-> r.last,
                                     is_dollar |-> r.is_dollar, count |-> r.counting_db,
                                     edge |-> e ])
                  /\ out' = [out EXCEPT ![t] =
                               [pc |-> "count", tid |-> r.tid, i |-> r.i, snap |-> <<g, r>>]]
    /\ UNCHANGED <<side, input, pc, cx1, rp, lv1_items, lv2>>

\* the check that lets one dummy node too many through
TooManyDummyNodes_OffByOne(nd) == nd > kMaxDummyEdges

\* the test before xerr_and_exit, on the incremented num_dollar_nodes
TooManyDummyNodes(nd) == nd >= kMaxDummyEdges

\* write section, second half for the same record: the globals are written
\* back, the dummy node goes to .dn, kMaxDummyEdges is enforced
OutputCount(t) ==
    /\ NotAborted
    /\ out[t].pc = "count"
    /\ LET s == out[t].snap[1]
           r == out[t].snap[2]
           nd == s.num_dollar_nodes + 1
           abort == r.is_dollar = 1 /\ TooManyDummyNodes(nd)
       IN  /\ g' = [g EXCEPT
                      !.cur_suffix_first_char =
                          IF ExtractFirstChar(r.item) > s.cur_suffix_first_char
                          THEN ExtractFirstChar(r.item) ELSE @,
                      !.total_number_edges = s.total_number_edges + 1,
                      !.num_chars_in_w[r.w] = s.num_chars_in_w[r.w] + 1,
                      !.num_ones_in_last = s.num_ones_in_last + r.last,
                      !.num_dollar_nodes = IF r.is_dollar = 1 THEN nd ELSE @,
                      !.num_dummy_edges = IF r.w = 0 /\ ~abort
                                          THEN s.num_dummy_edges + 1 ELSE @]
           /\ files' = IF r.is_dollar = 1 /\ ~abort
                       THEN [files EXCEPT !.dn = @ \o
                               [n \in 1..words_per_dummy_node |-> ItemKey(r.item)]]
                       ELSE files
           /\ pc' = IF abort THEN "aborted" ELSE pc
           /\ out' = [out EXCEPT ![t] =
                        [pc |-> "write", tid |-> r.tid, i |-> r.i + 1, snap |-> <<>>]]
    /\ UNCHANGED <<side, input, cx1, rp, lv1_items, lv2, emitted>>

\* the writer has passed its last record (or the worker has no write section)
OutputReturn(t) ==
    /\ NotAborted
    /\ out[t].pc = "write"
    /\ ~WriterNext(out[t]).found
    /\ out' = [out EXCEPT ![t].pc = "done"]
    /\ UNCHANGED <<side, input, pc, cx1, rp, lv1_items, lv2, g, files, emitted>>

Next ==
    \/ Lv0CalcBucketSize
    \/ init_global_and_set_cx1
    \/ Lv1Start
    \/ \E t \in 1..Len(rp) : lv1_fill_offset(t)
    \/ Lv1FillJoin
    \/ Lv2Extract
    \/ lv2_sort
    \/ Lv2PreOutputPartition
    \/ Lv1Next
    \/ post_proc
    \/ \E t \in 1..Len(out) : OutputMark(t)
    \/ OutputBarrier
    \/ \E t \in 1..Len(out) : OutputWrite(t)
    \/ \E t \in 1..Len(out) : OutputCount(t)
    \/ \E t \in 1..Len(out) : OutputReturn(t)

Spec == Init /\ [][Next]_vars

(***************************************************************************)
(* Properties of the emitter's labelling.                                  *)
(***************************************************************************)
Range(f) == { f[x] : x \in DOMAIN f }

\* the (k-1)-mer of an item
KMinusOneMer(item) == SubSeq(item.chars, 1, kmer_k - 1)

\* output workers that have labelled their range of the current batch
Labelled == { t \in 1..Len(out) : out[t].pc \notin {"idle", "mark"} }

\* the items of the current batch that lie in a labelled range
Covered ==
    { i \in 0..(lv2.lv2_num_items_db - 1) :
        \E t \in Labelled : cx1.op[t].op_start_index <= i /\ i < cx1.op[t].op_end_index }

\* the records the labelling has produced so far for the current batch:
\* flagged lv2_aux entries, or the out_items of the workers
MarkSet ==
    IF input.pipeline = "seq"
    THEN { [ i |-> i, w |-> lv2.lv2_aux[i + 1] % 16,
             last |-> (lv2.lv2_aux[i + 1] \div 16) % 2,
             is_dollar |-> (lv2.lv2_aux[i + 1] \div 32) % 2 ] :
           i \in { x \in 0..(Len(lv2.lv2_aux) - 1) : lv2.lv2_aux[x + 1] >= 128 } }
    ELSE UNION { { [i |-> m.i, w |-> m.w, last |-> m.last, is_dollar |-> m.is_dollar] :
                   m \in Range(lv2.lv2_output_items[t]) } : t \in Labelled }

MarkA(m) == Extract_a(SortedDb[m.i + 1])
MarkB(m) == Extract_b(SortedDb[m.i + 1])
SameGroup(i, j) == KMinusOneMer(SortedDb[i + 1]) = KMinusOneMer(SortedDb[j + 1])

GroupOf(i) == { j \in 0..(lv2.lv2_num_items_db - 1) : SameGroup(i, j) }

\* the claim's suppression condition for the sub-group of item i
DroppedSubGroup(i) ==
    LET a == Extract_a(SortedDb[i + 1])
        b == Extract_b(SortedDb[i + 1])
    IN  \/ /\ a = kSentinelValue
           /\ \E j \in GroupOf(i) : /\ Extract_b(SortedDb[j + 1]) = b
                                    /\ Extract_a(SortedDb[j + 1]) # kSentinelValue
        \/ /\ b = kSentinelValue
           /\ \E j \in GroupOf(i) : /\ Extract_a(SortedDb[j + 1]) = a
                                    /\ Extract_b(SortedDb[j + 1]) # kSentinelValue

\* the records produced for the sub-group of item i
RecordsOfSubGroup(i) ==
    { m \in MarkSet : /\ SameGroup(m.i, i)
                      /\ MarkA(m) = Extract_a(SortedDb[i + 1])
                      /\ MarkB(m) = Extract_b(SortedDb[i + 1]) }

RECURSIVE OffsetsOfBucket(_, _, _)
OffsetsOfBucket(occ, n, b) ==
    IF n > Len(occ) THEN <<>>
    ELSE (IF occ[n].key = b THEN <<FullOffset(input, occ[n])>> ELSE <<>>)
         \o OffsetsOfBucket(occ, n + 1, b)

\* the level-1 slots of the current window are complete
Lv1Filled == pc \in {"lv2", "sort", "pre_output"}

\* C10: for every level-1 window, every bucket in it and every worker,
\* replaying the worker's level-1 slots of the bucket in written order from
\* the worker's differential base (adding a non-negative value, replacing
\* the running offset by side-table entry -v-1 for a negative v) gives
\* exactly the absolute offsets the filler generated for that worker and
\* bucket, in the same order.
C10_DifferentialDecoding ==
    Lv1Filled =>
        \A t \in 1..Len(rp) : \A b \in 0..(NumBuckets(input) - 1) :
            InWindow(b, cx1) =>
                DecodeRun(lv1_items, cx1.lv1_items_special,
                          rp[t].rp_bucket_offsets[b], rp[t].rp_bucket_sizes[b],
                          rp[t].rp_lv1_differential_base)
                = OffsetsOfBucket(RangeOcc(input, rp[t].rp_start_id, rp[t].rp_end_id), 1, b)

\* a filled window in which two workers both have slots, one of them a
\* side-table reference and one a positive differential
C10_Witness ==
    /\ Lv1Filled
    /\ Len(rp) = 2
    /\ \A t \in 1..2 : \E b \in 0..(NumBuckets(input) - 1) :
          InWindow(b, cx1) /\ rp[t].rp_bucket_sizes[b] > 0
    /\ cx1.lv1_items_special # <<>>
    /\ \E n \in 1..cx1.lv1_num_items : lv1_items[n] < 0
    /\ \E n \in 1..cx1.lv1_num_items : lv1_items[n] > 0

(***************************************************************************)
(* Properties of the written streams at the end of a run.                  *)
(***************************************************************************)
\* every item the input gives rise to
AllItems ==
    LET occ == RangeOcc(input, 0, Len(input.package))
    IN  { ExtractItem(input, FullOffset(input, occ[n])) : n \in 1..Len(occ) }

\* the (a, b) sub-groups of all (k-1)-mer groups
SubGroups ==
    { [kmer |-> KMinusOneMer(it), a |-> Extract_a(it), b |-> Extract_b(it)] : it \in AllItems }

SuppressedSubGroup(sg) ==
    \/ /\ sg.a = kSentinelValue
       /\ \E o \in SubGroups : o.kmer = sg.kmer /\ o.b = sg.b /\ o.a # kSentinelValue
    \/ /\ sg.b = kSentinelValue
       /\ \E o \in SubGroups : o.kmer = sg.kmer /\ o.a = sg.a /\ o.b # kSentinelValue

NumEdgesExpected == Cardinality({ sg \in SubGroups : ~SuppressedSubGroup(sg) })

\* C4: after all level-2 batches have been emitted, total_number_edges
\* equals the number of (a, b) sub-groups minus the suppressed ones, and
\* every non-suppressed sub-group is written exactly once, for any number
\* of batches and output threads.
C4_EdgeCountConservation ==
    pc = "done" =>
        /\ g.total_number_edges = NumEdgesExpected
        /\ Len(files.w) = NumEdgesExpected
        /\ \A sg \in SubGroups :
              Cardinality({ n \in 1..Len(emitted) :
                              /\ KMinusOneMer(emitted[n].item) = sg.kmer
                              /\ Extract_a(emitted[n].item) = sg.a
                              /\ Extract_b(emitted[n].item) = sg.b })
              = IF SuppressedSubGroup(sg) THEN 0 ELSE 1

\* position of a sub-group in the sorted order of its group: a = $ first,
\* then a = A..T; for one a, b = A..T and b = $ last
SubGroupRank(item) ==
    (IF Extract_a(item) = kSentinelValue THEN 0 ELSE Extract_a(item) + 1) * 8 + Extract_b(item)

\* C5: over the whole run, for every pair of adjacent emitted records the
\* (k-1)-mer of the later one is lexicographically >= that of the earlier
\* one, and the records of one (k-1)-mer group are emitted in sorted (a, b)
\* sub-group order.
C5_OutputLexOrder ==
    \A n \in 1..(Len(emitted) - 1) :
        LET x == emitted[n].item
            y == emitted[n + 1].item
        IN  /\ CharsValue(x.chars, kmer_k - 1) <= CharsValue(y.chars, kmer_k - 1)
            /\ KMinusOneMer(x) = KMinusOneMer(y) => SubGroupRank(x) < SubGroupRank(y)

\* C6: at the end of the run num_ones_in_last equals the number of distinct
\* ((k-1)-mer, a) pairs among all emitted records.
C6_LastCount ==
    pc = "done" =>
        g.num_ones_in_last =
            Cardinality({ <<KMinusOneMer(e.item), Extract_a(e.item)>> : e \in Range(emitted) })

\* the emitted records with IsDollar = 1, in emission order
DollarRecords == SelectSeq(emitted, LAMBDA e : e.is_dollar = 1)

\* C7: on a run that completes, the dummy-node stream is the header word
\* words_per_dummy_node followed by exactly num_dollar_nodes records of that
\* many words, one per emitted record with IsDollar = 1 in the same order,
\* and the num_dollar_nodes of the .f tail equals that record count.
C7_DollarNodeCount ==
    pc = "done" =>
        /\ files.dn[1] = words_per_dummy_node
        /\ Len(files.dn) = 1 + words_per_dummy_node * g.num_dollar_nodes
        /\ Len(DollarRecords) = g.num_dollar_nodes
        /\ \A n \in 1..Len(DollarRecords) : \A x \in 1..words_per_dummy_node :
              /\ 1 + (n - 1) * words_per_dummy_node + x <= Len(files.dn)
              /\ files.dn[1 + (n - 1) * words_per_dummy_node + x] = ItemKey(DollarRecords[n].item)
        /\ files.f[Len(files.f)] = Len(DollarRecords)

\* the secondary records of edge index e
SecondaryOf(e) == { n \in 1..Len(files.mul2) : files.mul2[n] \div (2 ^ kMul2Shift) = e }

\* C8: for every emitted edge index e with count c, the primary entry e
\* (or, when it is the spill sentinel, the secondary record whose bits
\* above bit 15 equal e) decodes to min(c, kMaxMulti_t); a count is spilled
\* iff it exceeds kMaxMulti2_t, then exactly one secondary record
\* (count | e << 16) exists; secondary records are in increasing edge-index
\* order.
C8_MultiplicityRoundTrip ==
    pc = "done" =>
        /\ Len(files.mul) = Len(emitted)
        /\ \A n \in 1..Len(emitted) :
              LET c == emitted[n].count
                  e == n - 1
              IN  IF c > kMaxMulti2_t
                  THEN /\ files.mul[n] = kMulti2Sp
                       /\ Cardinality(SecondaryOf(e)) = 1
                       /\ \A x \in SecondaryOf(e) :
                             files.mul2[x] % (2 ^ kMul2Shift) = Min(c, kMaxMulti_t)
                  ELSE /\ files.mul[n] = Min(c, kMaxMulti_t)
                       /\ SecondaryOf(e) = {}
        /\ \A x \in 1..(Len(files.mul2) - 1) :
              files.mul2[x] \div (2 ^ kMul2Shift) < files.mul2[x + 1] \div (2 ^ kMul2Shift)

\* the entries of .f between the leading -1 and the three-line tail
FCounts == SubSeq(files.f, 2, Len(files.f) - 3)

\* C9: the cumulative edge counts of .f between the leading -1 and the tail
\* are non-decreasing, and their number equals the number of distinct
\* leading characters among the emitted edges.
C9_FirstCharMonotonicity ==
    pc = "done" =>
        /\ \A n \in 1..(Len(FCounts) - 1) : FCounts[n] <= FCounts[n + 1]
        /\ Len(FCounts) = Cardinality({ ExtractFirstChar(e.item) : e \in Range(emitted) })

(***************************************************************************)
(* Properties of the emitted counts.                                       *)
(***************************************************************************)
\* the occurrences of the whole input whose item lies in the sub-group of item
SubGroupOccurrences(item) ==
    LET occ == RangeOcc(input, 0, Len(input.package))
    IN  { n \in 1..Len(occ) :
            LET it == ExtractItem(input, FullOffset(input, occ[n]))
            IN  /\ KMinusOneMer(it) = KMinusOneMer(item)
                /\ Extract_a(it) = Extract_a(item)
                /\ Extract_b(it) = Extract_b(item) }

\* the largest multiplicity stored in the items of the sub-group of item
\* (the one of the first item in sorted order)
StoredMultiplicity(item) ==
    LET occ == RangeOcc(input, 0, Len(input.package))
        invs == { ExtractItem(input, FullOffset(input, occ[n])).inv :
                    n \in SubGroupOccurrences(item) }
    IN  kMaxMulti_t - (CHOOSE v \in invs : \A u \in invs : v <= u)

\* C11: every emitted record with a = $ or b = $ has count 0; a record with
\* a # $ and b # $ has count min(kMaxMulti_t, number of items of its
\* sub-group) in the read pipeline and min(kMaxMulti_t, multiplicity stored
\* in the first item of its sub-group) in the edge pipeline.
C11_EmittedCount ==
    \A n \in 1..Len(emitted) :
        LET e == emitted[n]
        IN  IF Extract_a(e.item) = kSentinelValue \/ Extract_b(e.item) = kSentinelValue
            THEN e.count = 0
            ELSE IF input.pipeline = "read"
                 THEN e.count = Min(kMaxMulti_t, Cardinality(SubGroupOccurrences(e.item)))
                 ELSE e.count = Min(kMaxMulti_t, StoredMultiplicity(e.item))

\* a read-pipeline run that has written a record of a two-item sub-group
\* with count 2 and a record with b = $ and count 0
C11_Witness ==
    /\ input.pipeline = "read"
    /\ \E e \in Range(emitted) : e.count = 2
    /\ \E e \in Range(emitted) : Extract_b(e.item) = kSentinelValue /\ e.count = 0

(***************************************************************************)
(* Properties of the abort on too many dummy nodes.                        *)
(***************************************************************************)
\* C16: the emitter aborts at the record that makes num_dollar_nodes reach
\* kMaxDummyEdges: in every state of a run that has not aborted
\* num_dollar_nodes < kMaxDummyEdges, an aborted run has stopped with
\* num_dollar_nodes = kMaxDummyEdges, and no run completes with
\* num_dollar_nodes >= kMaxDummyEdges.
C16_GraphTooDense ==
    /\ pc # "aborted" => g.num_dollar_nodes < kMaxDummyEdges
    /\ pc = "aborted" => g.num_dollar_nodes = kMaxDummyEdges
    /\ pc = "done" => files.f[Len(files.f)] < kMaxDummyEdges

\* a run aborted by its kMaxDummyEdges-th dummy node, after the dummy nodes
\* before it were written
C16_Witness ==
    /\ pc = "aborted"
    /\ g.num_dollar_nodes = kMaxDummyEdges
    /\ Len(files.dn) = 1 + words_per_dummy_node * (kMaxDummyEdges - 1)

(***************************************************************************)
(* The output of a run against the output of one unconstrained batch.      *)
(***************************************************************************)
\* all items of the input, sorted as one level-2 batch
AllSorted ==
    LET occ == RangeOcc(input, 0, Len(input.package))
        items == [n \in 1..Len(occ) |-> ExtractItem(input, FullOffset(input, occ[n]))]
    IN  SortedOf(items, lv2_cpu_sort(items))

\* the records one output worker produces for that batch
SingleBatchRecords ==
    LET marks == MarkRange(AllSorted, 0, Len(AllSorted), NoLastA)
    IN  [n \in 1..Len(marks) |->
           LET item == AllSorted[marks[n].i + 1]
           IN  [ item |-> item, w |-> marks[n].w, last |-> marks[n].last,
                 is_dollar |-> marks[n].is_dollar,
                 count |-> IF input.pipeline = "seq"
                           THEN kMaxMulti_t - Min(kMaxMulti_t, ExtractCounting(item))
                           ELSE marks[n].count ]]

\* the .f entries a single writer produces for the records from n on
RECURSIVE SingleBatchF(_, _, _)
SingleBatchF(recs, n, cur) ==
    IF n > Len(recs) THEN <<>>
    ELSE FEntries(ExtractFirstChar(recs[n].item), cur, n - 1)
         \o SingleBatchF(recs, n + 1, Max(cur, ExtractFirstChar(recs[n].item)))

\* C12: for a fixed input the emitted records (W, LAST, IsDollar, count),
\* the dummy nodes and the .f entries of a completed run are the same for
\* every contiguous batching of the buckets, i.e. equal to those of a
\* single unconstrained level-2 batch.
C12_BatchPartitionIndependence ==
    pc = "done" =>
        LET recs == SingleBatchRecords
            dollars == SelectSeq(recs, LAMBDA r : r.is_dollar = 1)
        IN  /\ [n \in 1..Len(emitted) |->
                  [ item |-> emitted[n].item, w |-> emitted[n].w, last |-> emitted[n].last,
                    is_dollar |-> emitted[n].is_dollar, count |-> emitted[n].count ]] = recs
            /\ files.w = [n \in 1..Len(recs) |-> recs[n].w]
            /\ files.last = [n \in 1..Len(recs) |-> recs[n].last]
            /\ files.isd = [n \in 1..Len(recs) |-> recs[n].is_dollar]
            /\ FCounts = SingleBatchF(recs, 1, -1)
            /\ files.dn = <<words_per_dummy_node>> \o
                  [n \in 1..(Len(dollars) * words_per_dummy_node) |->
                     ItemKey(dollars[((n - 1) \div words_per_dummy_node) + 1].item)]

\* C20: for every level-2 batch and every num_output_threads, after the
\* output barrier exactly one output worker executes the sequential write
\* section, so each flagged record is written once and total_number_edges is
\* incremented once per record.
C20_SingleSequentialWriter ==
    /\ Cardinality({ t \in 1..Len(out) : out[t].pc \in {"write", "count"} }) <= 1
    /\ OutputJoined => Len(files.w) = g.total_number_edges

(***************************************************************************)
(* Properties of the level-1 filler.                                       *)
(***************************************************************************)
\* number of level-1 records worker t has written for bucket b in the
\* current window
Written(t, b) ==
    IF ~InWindow(b, cx1) THEN 0
    ELSE IF pc = "fill"
    THEN rp[t].rp_bucket_offsets[b] - lv1_compute_offset(rp, cx1.lv1_start_bucket, t - 1, b)
    ELSE IF Lv1Filled THEN rp[t].rp_bucket_sizes[b]
    ELSE 0

\* the slot (0-based) of the n-th record (1-based) of worker t in bucket b
SlotOf(t, b, n) == lv1_compute_offset(rp, cx1.lv1_start_bucket, t - 1, b) + n - 1

\* the written records: worker, bucket, rank, the occurrence's absolute
\* offset, the offset it is compared with, and the stored value
FillRecords ==
    UNION { UNION { { LET offs == OffsetsOfBucket(
                                      RangeOcc(input, rp[t].rp_start_id, rp[t].rp_end_id), 1, b)
                      IN  [ t |-> t, b |-> b, n |-> n,
                            full_offset |-> offs[n],
                            prev |-> IF n = 1 THEN rp[t].rp_lv1_differential_base
                                     ELSE offs[n - 1],
                            v |-> lv1_items[SlotOf(t, b, n) + 1] ] :
                      n \in 1..Written(t, b) } :
                    b \in 0..(NumBuckets(input) - 1) } :
            t \in 1..Len(rp) }

\* C21: for any interleaving of the level-1 filler workers, a negative
\* record v stored for an occurrence refers to side-table entry -v-1, which
\* holds exactly that occurrence's absolute offset; no two records refer to
\* the same entry; an occurrence goes to the side table iff its
\* differential exceeds kDifferentialLimit, and otherwise the non-negative
\* differential is stored in the slot.
C21_SideTableConsistency ==
    /\ \A r \in FillRecords :
          /\ (r.v < 0) <=> (r.full_offset - r.prev > kDifferentialLimit)
          /\ r.v < 0 =>
                /\ -r.v - 1 < Len(cx1.lv1_items_special)
                /\ cx1.lv1_items_special[(-r.v - 1) + 1] = r.full_offset
          /\ r.v >= 0 => r.v = r.full_offset - r.prev
    /\ \A r1, r2 \in FillRecords :
          (r1.v < 0 /\ r1.v = r2.v) => r1 = r2
    /\ (pc = "fill" \/ Lv1Filled) =>
          Cardinality({r \in FillRecords : r.v < 0}) = Len(cx1.lv1_items_special)

\* two filler workers are both in the middle of their scan and each has
\* already stored a side-table record, next to a stored differential
C21_Witness ==
    /\ pc = "fill"
    /\ Len(rp) = 2
    /\ \A t \in 1..2 : rp[t].running /\ \E r \in FillRecords : r.t = t /\ r.v < 0
    /\ \E r \in FillRecords : r.v >= 0

(***************************************************************************)
(* Agreement of the bucket-size pass and the level-1 filler.               *)
(***************************************************************************)
\* number of the first n occurrences of occ whose bucket is b
RECURSIVE CountOcc(_, _, _)
CountOcc(occ, n, b) ==
    IF n = 0 THEN 0
    ELSE (IF occ[n].key = b THEN 1 ELSE 0) + CountOcc(occ, n - 1, b)

WorkerOcc(t) == RangeOcc(input, rp[t].rp_start_id, rp[t].rp_end_id)

\* every filler worker has returned and the main thread has not joined yet
FillFinished == pc = "fill" /\ \A t \in 1..Len(rp) : ~rp[t].running

\* C23: for every worker t and every bucket b of the current level-1 window
\* the filler writes as many level-1 records for (t, b) as the bucket-size
\* pass counted for (t, b); both passes give every occurrence the same
\* bucket; occurrences of a bucket outside the window are not recorded.
\* In both pipelines.
C23_PreprocessorFillerAgreement ==
    /\ pc # "lv0" =>
          \A t \in 1..Len(rp) : \A b \in 0..(NumBuckets(input) - 1) :
              /\ rp[t].rp_bucket_sizes[b] = CountOcc(WorkerOcc(t), Len(WorkerOcc(t)), b)
              /\ \A id \in rp[t].rp_start_id..(rp[t].rp_end_id - 1) :
                    CountKey(RangeBucketKeys(input, id, id + 1), b)
                    = CountOcc(OccOf(input, id), Len(OccOf(input, id)), b)
    /\ pc = "fill" =>
          /\ \A t \in 1..Len(rp) : \A b \in 0..(NumBuckets(input) - 1) :
                InWindow(b, cx1) =>
                    /\ Written(t, b) = CountOcc(WorkerOcc(t), rp[t].next, b)
                    /\ Written(t, b) <= rp[t].rp_bucket_sizes[b]
                    /\ ~rp[t].running => Written(t, b) = rp[t].rp_bucket_sizes[b]
          /\ \A r \in FillRecords : InWindow(r.b, cx1) /\ SlotOf(r.t, r.b, r.n) < Len(lv1_items)
          /\ \A r1, r2 \in FillRecords :
                SlotOf(r1.t, r1.b, r1.n) = SlotOf(r2.t, r2.b, r2.n) => r1 = r2
          /\ FillFinished => Cardinality(FillRecords) = Len(lv1_items)

\* two workers have filled a window that leaves some of their occurrences
\* out, in the edge pipeline and in the read pipeline
C23_WitnessSeq ==
    /\ FillFinished /\ Len(rp) = 2 /\ input.pipeline = "seq"
    /\ \A t \in 1..2 :
          /\ \E b \in 0..(NumBuckets(input) - 1) :
                InWindow(b, cx1) /\ rp[t].rp_bucket_sizes[b] > 0
          /\ \E b \in 0..(NumBuckets(input) - 1) :
                ~InWindow(b, cx1) /\ rp[t].rp_bucket_sizes[b] > 0

C23_Witness ==
    /\ FillFinished /\ Len(rp) = 2 /\ input.pipeline = "read"
    /\ \A t \in 1..2 :
          /\ \E b \in 0..(NumBuckets(input) - 1) :
                InWindow(b, cx1) /\ rp[t].rp_bucket_sizes[b] > 0
          /\ \E b \in 0..(NumBuckets(input) - 1) :
                ~InWindow(b, cx1) /\ rp[t].rp_bucket_sizes[b] > 0

(***************************************************************************)
(* The assertions of the filler and of the extractor.                      *)
(***************************************************************************)
\* the full offsets of the batch in the front buffers, in item order
BatchOffsets ==
    DecodeWalk(lv1_items, cx1.lv1_items_special, rp, cx1.lv2_start_bucket,
               cx1.lv2_end_bucket, rp[1].rp_bucket_offsets[cx1.lv2_start_bucket])

\* C26: in both pipelines, within one worker and one bucket the absolute
\* offsets are generated in non-decreasing order and the first one is >=
\* the worker's differential base, so the filler's assertion
\* differential >= 0 never fails, and the extractor's assertions on
\* num_chars_to_copy never fail, for inputs of sequences of length >= k+1.
C26_NonNegativeDifferentials ==
    /\ pc # "assert_failed"
    /\ \A t \in 1..Len(rp) : \A b \in 0..(NumBuckets(input) - 1) :
          LET offs == OffsetsOfBucket(WorkerOcc(t), 1, b)
          IN  \A n \in 1..Len(offs) :
                  offs[n] >= (IF n = 1 THEN rp[t].rp_lv1_differential_base ELSE offs[n - 1])
    /\ \A r \in FillRecords : r.v >= 0 => r.v = r.full_offset - r.prev
    /\ (pc \in {"sort", "pre_output"} /\ input.pipeline = "seq") =>
          \A n \in 1..Len(BatchOffsets) :
              ExtractAssertionsSeq(input.package, BatchOffsets[n])

\* two workers have filled a window of the edge pipeline, with a
\* differential of 0 and a positive one, and the extractor has passed an
\* item of offset 0 and an item whose offset on the normal strand is negative
C26_Witness ==
    /\ input.pipeline = "seq" /\ pc = "sort" /\ Len(rp) = 2
    /\ \E r \in FillRecords : r.v = 0
    /\ \E r \in FillRecords : r.v > 0 /\ r.t = 2
    /\ \E n \in 1..Len(BatchOffsets) : lv2.lv2_substrings[n].prev = kSentinelValue
    /\ \E n \in 1..Len(BatchOffsets) :
          BatchOffsets[n] % 2 = 1 /\ lv2.lv2_substrings[n].non_dollar = 0

\* two workers have filled a window of the read pipeline with differentials
C26_WitnessRead ==
    /\ input.pipeline = "read" /\ FillFinished /\ Len(rp) = 2
    /\ \A t \in 1..2 : \E r \in FillRecords : r.t = t /\ r.v >= 0

(***************************************************************************)
(* Properties of the double buffers.                                       *)
(***************************************************************************)
\* some output worker of the last swapped batch has not returned yet
EmitActive == \E t \in 1..Len(out) : out[t].pc \in {"mark", "barrier", "write", "count"}

\* the buffers and the item count the output workers read
DbBuffers == <<lv2.lv2_substrings_db, lv2.permutation_db, lv2.lv2_num_items_db>>

\* C22: after the swap of lv2_pre_output_partition the emit phase of batch n
\* reads the _db buffers with spacing lv2_num_items_db, while extract and
\* sort of batch n+1 write the front buffers with spacing lv2_num_items_:
\* no step taken while an output worker runs changes a _db buffer or
\* lv2_num_items_db, and each side's item count is that of its own buffers.
C22_DoubleBufferDisjoint ==
    [][ /\ EmitActive => DbBuffers' = DbBuffers
        /\ EmitActive' =>
              /\ lv2'.lv2_num_items_db = Len(lv2'.lv2_substrings_db)
              /\ lv2'.lv2_num_items_db = Len(lv2'.permutation_db)
        /\ pc' \in {"sort", "pre_output"} =>
              cx1'.lv2_num_items = Len(lv2'.lv2_substrings)
        /\ pc' = "pre_output" => cx1'.lv2_num_items = Len(lv2'.permutation) ]_vars

\* batch n+1 is extracted and sorted in the front buffers while an output
\* worker still writes records of batch n, and the two batches differ in
\* their items and in their number of items
C22_Witness ==
    /\ pc = "pre_output"
    /\ \E t \in 1..Len(out) : out[t].pc = "count"
    /\ cx1.lv2_num_items # lv2.lv2_num_items_db
    /\ lv2.lv2_substrings # <<>> /\ lv2.lv2_substrings_db # <<>>
    /\ lv2.lv2_substrings # lv2.lv2_substrings_db

(***************************************************************************)
(* The driver: options for k (parse_opt, check_opt).                       *)
(***************************************************************************)
\* the builder is at rest while another program of the repository runs
RestInput == CHOOSE inp \in Inputs : inp.num_cpu_threads = 1 /\ inp.num_output_threads = 1

KChoices == {13, 15, 21, 22, 49, 51, 127, 129}
KStepChoices == {-2, 0, 1, 2, 28, 30}
MaxKListLen == 2

\* command lines: --k-min/--k-max/--k-step, or --k-list
KOptions ==
    { [set_list_by_min_max_step |-> TRUE, k_min |-> a, k_max |-> b, k_step |-> c, k_list |-> <<>>] :
        a \in KChoices, b \in KChoices, c \in KStepChoices }
    \cup
    { [set_list_by_min_max_step |-> FALSE, k_min |-> 21, k_max |-> 99, k_step |-> 20, k_list |-> l] :
        l \in UNION { [1..n -> KChoices] : n \in 1..MaxKListLen } }

RECURSIVE InsertSorted(_, _)
InsertSorted(x, l) ==
    IF l = <<>> THEN <<x>>
    ELSE IF x <= Head(l) THEN <<x>> \o l
    ELSE <<Head(l)>> \o InsertSorted(x, Tail(l))

\* list.sort()
RECURSIVE SortList(_)
SortList(l) == IF l = <<>> THEN <<>> ELSE InsertSorted(Head(l), SortList(Tail(l)))

\* parse_opt: --k-list is split, converted and sorted
parse_opt(o) == [o EXCEPT !.k_list = SortList(@)]

\* the loop of check_opt that fills k_list from k_min, k_max and k_step
RECURSIVE DerivedKList(_, _, _)
DerivedKList(k, k_max, k_step) ==
    IF k < k_max THEN <<k>> \o DerivedKList(k + k_step, k_max, k_step) ELSE <<k_max>>

\* the loop ends only if k reaches k_max
LoopEnds(o) == o.k_min >= o.k_max \/ o.k_step > 0

KListOf(o) ==
    IF o.set_list_by_min_max_step THEN DerivedKList(o.k_min, o.k_max, o.k_step) ELSE o.k_list

\* the checks of check_opt on k, in the order of the code
check_opt(o) ==
    IF o.set_list_by_min_max_step /\ o.k_step % 2 = 1 THEN "usage"
    ELSE IF o.set_list_by_min_max_step /\ o.k_min > o.k_max THEN "usage"
    ELSE IF o.set_list_by_min_max_step /\ ~LoopEnds(o) THEN "no_return"
    ELSE LET kl == KListOf(o) IN
         IF Len(kl) = 0 THEN "usage"
         ELSE IF kl[1] < 15 \/ kl[Len(kl)] > 127 THEN "usage"
         ELSE IF \E i \in 1..Len(kl) : kl[i] % 2 = 0 THEN "usage"
         ELSE IF \E i \in 2..Len(kl) : kl[i] - kl[i - 1] > 28 THEN "usage"
         ELSE IF kl[Len(kl)] < kl[1] THEN "usage"
         ELSE "ok"

InitOptions ==
    /\ CX1Init({RestInput})
    /\ driver \in { [pc |-> "parse_opt", opt |-> o, k_list |-> <<>>, exit_code |-> -1] : o \in KOptions }
    /\ mercy = NotStarted
    /\ dbg = NotStarted

DriverParseOpt ==
    /\ driver.pc = "parse_opt"
    /\ driver' = [driver EXCEPT !.pc = "check_opt", !.opt = parse_opt(@)]
    /\ UNCHANGED <<input, pc, cx1, rp, lv1_items, lv2, out, g, files, emitted, mercy, dbg>>

\* check_opt returns, raises Usage (main then returns 2), or stays in its loop
DriverCheckOpt ==
    /\ driver.pc = "check_opt"
    /\ LET r == check_opt(driver.opt)
       IN  driver' = [driver EXCEPT
               !.pc = IF r = "ok" THEN "stages" ELSE IF r = "usage" THEN "exit" ELSE "k_list_loop",
               !.k_list = IF r = "ok" THEN KListOf(driver.opt) ELSE <<>>,
               !.exit_code = IF r = "usage" THEN 2 ELSE -1]
    /\ UNCHANGED <<input, pc, cx1, rp, lv1_items, lv2, out, g, files, emitted, mercy, dbg>>

NextOptions == DriverParseOpt \/ DriverCheckOpt

SpecOptions == InitOptions /\ [][NextOptions]_vars

KListValid(kl) ==
    /\ \A i \in 1..Len(kl) : kl[i] % 2 = 1 /\ 15 <= kl[i] /\ kl[i] <= 127
    /\ \A i \in 2..Len(kl) : kl[i] - kl[i - 1] <= 28

\* starts at k_min, goes up by k_step while below k_max, ends with k_max
KListDerived(o, kl) ==
    /\ kl[Len(kl)] = o.k_max
    /\ \A i \in 1..(Len(kl) - 1) : kl[i] = o.k_min + (i - 1) * o.k_step /\ kl[i] < o.k_max
    /\ o.k_min + (Len(kl) - 1) * o.k_step >= o.k_max

\* C18: check_opt accepts a configuration only if every k of the k list is odd
\* and in [15, 127], adjacent k differ by at most 28 and, for a derived list,
\* the step is even and k_min <= k_max; every other configuration ends with
\* the Usage error (exit code 2) before any stage; the derived list starts at
\* k_min, goes up by k_step while below k_max and ends with k_max.
C18_KValidation ==
    driver.pc \in {"stages", "exit", "k_list_loop"} =>
        /\ driver.pc = "stages" =>
              /\ KListValid(driver.k_list)
              /\ driver.opt.set_list_by_min_max_step =>
                    /\ driver.opt.k_step % 2 = 0
                    /\ driver.opt.k_min <= driver.opt.k_max
                    /\ KListDerived(driver.opt, driver.k_list)
        /\ driver.pc # "stages" => driver.pc = "exit" /\ driver.exit_code = 2

\* the part of C18 that holds: what is accepted is valid, a derived list has the
\* stated shape, and a configuration that is turned down gets exit code 2
C18_AcceptedValid ==
    /\ driver.pc = "stages" =>
          /\ KListValid(driver.k_list)
          /\ driver.opt.set_list_by_min_max_step =>
                /\ driver.opt.k_step % 2 = 0
                /\ driver.opt.k_min <= driver.opt.k_max
                /\ KListDerived(driver.opt, driver.k_list)
    /\ driver.pc = "exit" => driver.exit_code = 2

(***************************************************************************)
(* The driver: stages, check points and --continue.                        *)
(***************************************************************************)
MaxRuns == 3
MaxKs == 2

\* what the stages of main depend on: the number of k, --no-local, --kmin-1pass
StageOptions ==
    { [num_k |-> n, no_local |-> l, kmin_1pass |-> o] :
        n \in 1..MaxKs, l \in BOOLEAN, o \in BOOLEAN }

\* the stages of one k of the loop of main
RECURSIVE IterationStages(_, _, _)
IterationStages(o, j, n) ==
    IF j >= n THEN <<>>
    ELSE (IF o.no_local THEN <<>> ELSE << [name |-> "local_assemble", k |-> j] >>)
         \o << [name |-> "iterate", k |-> j],
               [name |-> "build_graph", k |-> j + 1],
               [name |-> "assemble", k |-> j + 1] >>
         \o IterationStages(o, j + 1, n)

\* main: the stage calls in program order
Program(o) ==
    << [name |-> "build_lib", k |-> 0], [name |-> "build_first_graph", k |-> 1] >>
    \o (IF o.kmin_1pass THEN <<>> ELSE << [name |-> "build_graph", k |-> 1] >>)
    \o << [name |-> "assemble", k |-> 1] >>
    \o IterationStages(o, 1, o.num_k)
    \o << [name |-> "merge_final", k |-> o.num_k] >>

\* prepare_continue: the index of the last line "<index> done" of cp.txt
LastCp(cp_txt) == IF cp_txt = <<>> THEN -1 ELSE cp_txt[Len(cp_txt)]

\* if (not opt.continue_mode) or (cp > opt.last_cp)
StageRuns(d) == ~d.continue_mode \/ d.cp > d.last_cp

\* build_graph returns False when there is nothing to build from
MayReturnFalse(st) == st.name = "build_graph"

InitStages ==
    /\ CX1Init({RestInput})
    /\ driver \in { [pc |-> "off", opt |-> o, run |-> 0, continue_mode |-> FALSE,
                     last_cp |-> -1, cp |-> 0, pos |-> 1, executing |-> FALSE,
                     cp_txt |-> <<>>, opts_txt |-> FALSE,
                     completed |-> {}, index_of |-> {},
                     reexecuted |-> {}, skipped_uncompleted |-> {},
                     index_changed |-> {}] : o \in StageOptions }
    /\ mercy = NotStarted
    /\ dbg = NotStarted

DriverUnchanged == UNCHANGED <<input, pc, cx1, rp, lv1_items, lv2, out, g, files, emitted, mercy, dbg>>

\* the first run: the output directory does not exist yet
DriverStart ==
    /\ driver.pc = "off" /\ driver.run = 0
    /\ driver' = [driver EXCEPT !.pc = "stage", !.run = 1, !.continue_mode = FALSE,
                                !.last_cp = -1, !.cp = 0, !.pos = 1]
    /\ DriverUnchanged

\* a run with --continue: prepare_continue
DriverContinue ==
    /\ driver.pc \in {"off", "finished"} /\ driver.run >= 1 /\ driver.run < MaxRuns
    /\ driver' = [driver EXCEPT !.pc = "stage", !.run = @ + 1,
                                !.continue_mode = driver.opts_txt,
                                !.last_cp = IF driver.opts_txt THEN LastCp(driver.cp_txt) ELSE -1,
                                !.cp = 0, !.pos = 1]
    /\ DriverUnchanged

\* position of the stage after position p: next, or merge_final after a
\* build_graph of the loop that returned False
AfterFalse(prog, p) == IF prog[p].k = 1 THEN p + 1 ELSE Len(prog)

\* the guarded body of a stage
DriverStage ==
    /\ driver.pc = "stage"
    /\ LET prog == Program(driver.opt)
           p == driver.pos
           d1 == [driver EXCEPT
                    !.index_of = @ \cup {<<p, driver.cp>>},
                    !.index_changed = IF \E x \in driver.index_of : x[1] = p /\ x[2] # driver.cp
                                      THEN @ \cup {p} ELSE @]
       IN  IF StageRuns(driver)
           THEN \/ driver' = [d1 EXCEPT !.pc = "write_cp", !.executing = TRUE,
                                !.reexecuted = IF p \in driver.completed THEN @ \cup {p} ELSE @]
                \/ /\ MayReturnFalse(prog[p])
                   /\ driver' = [driver EXCEPT !.pos = AfterFalse(prog, p)]
           ELSE driver' = [d1 EXCEPT !.pc = "write_cp", !.executing = FALSE,
                              !.skipped_uncompleted =
                                  IF p \notin driver.completed THEN @ \cup {p} ELSE @]
    /\ DriverUnchanged

\* write_cp, and the return to main
DriverWriteCp ==
    /\ driver.pc = "write_cp"
    /\ LET prog == Program(driver.opt)
           p == driver.pos
       IN  driver' = [driver EXCEPT
               !.cp_txt = Append(@, driver.cp),
               !.cp = @ + 1,
               !.completed = IF driver.executing THEN @ \cup {p} ELSE @,
               !.executing = FALSE,
               !.pos = p + 1,
               !.pc = IF p = Len(prog) THEN "finished"
                      ELSE IF p = 1 /\ ~driver.continue_mode THEN "write_opt"
                      ELSE "stage"]
    /\ DriverUnchanged

\* write_opt, after build_lib of a run that is not in continue mode
DriverWriteOpt ==
    /\ driver.pc = "write_opt"
    /\ driver' = [driver EXCEPT !.opts_txt = TRUE, !.pc = "stage"]
    /\ DriverUnchanged

\* the run is killed, or a sub-program fails and the driver exits
DriverInterrupt ==
    /\ driver.pc \in {"stage", "write_cp", "write_opt"}
    /\ driver' = [driver EXCEPT !.pc = "off", !.executing = FALSE]
    /\ DriverUnchanged

NextStages ==
    \/ DriverStart
    \/ DriverContinue
    \/ DriverStage
    \/ DriverWriteCp
    \/ DriverWriteOpt
    \/ DriverInterrupt

SpecStages == InitStages /\ [][NextStages]_vars

\* C17: in a run with --continue a stage is skipped iff an earlier run has
\* recorded it as done, so no completed stage is executed again and no
\* uncompleted stage is skipped, and every stage has the same check point
\* index in every run.
C17_ContinueResumes ==
    /\ driver.reexecuted = {}
    /\ driver.skipped_uncompleted = {}
    /\ driver.index_changed = {}

\* the three parts of C17, one by one
C17_NoReexecution == driver.reexecuted = {}
C17_NoSkipOfUncompleted == driver.skipped_uncompleted = {}
C17_SameIndices == driver.index_changed = {}

(***************************************************************************)
(* GenMercyEdges: the scan of the reads for mercy edges.                   *)
(***************************************************************************)
\* a read is given by has_in / has_out of its k-mer positions 0 .. read_len - k
ShortReadLen == 3
LongReadLen == 8
LongReadFree == 4

Flag == [has_in : BOOLEAN, has_out : BOOLEAN]
Neither == [has_in |-> FALSE, has_out |-> FALSE]
\* flags without "both", for the inputs of more than one read
Flag3 == { f \in Flag : ~(f.has_in /\ f.has_out) }

\* reads of too few positions (skipped), short reads, and long reads that
\* start with LongReadLen - LongReadFree positions without in and out
MercyReadsOne ==
    [1..(ShortReadLen - 1) -> Flag3] \cup [1..ShortReadLen -> Flag]
    \cup { [i \in 1..LongReadLen |-> IF i <= LongReadLen - LongReadFree THEN Neither
                                     ELSE t[i - (LongReadLen - LongReadFree)]] :
           t \in [1..LongReadFree -> Flag] }
MercyReadsMany == [1..(ShortReadLen - 1) -> {Neither}] \cup [1..ShortReadLen -> Flag3]

\* the batches of reads the input thread delivers: one read, two reads in one
\* batch, or two batches of one read
MercyInputs ==
    { << <<r>> >> : r \in MercyReadsOne }
    \cup { << <<r1, r2>> >> : r1 \in MercyReadsMany, r2 \in MercyReadsMany }
    \cup { << <<r1>>, <<r2>> >> : r1 \in MercyReadsMany, r2 \in MercyReadsMany }

\* has_in[i] | (int(has_out[i]) << 1)
FlagCode(f) == (IF f.has_in THEN 1 ELSE 0) + 2 * (IF f.has_out THEN 1 ELSE 0)

\* one position of the scan: the new last_no_out and the positions pushed
ScanPosition_NeitherClears(code, i, last_no_out) ==
    IF code = 1 THEN [last_no_out |-> i, pushed |-> <<>>]
    ELSE IF code = 2
         THEN [last_no_out |-> -1,
               pushed |-> IF last_no_out >= 0 THEN [n \in 1..(i - last_no_out) |-> last_no_out + n - 1]
                          ELSE <<>>]
    ELSE [last_no_out |-> -1, pushed |-> <<>>]

ScanPosition(code, i, last_no_out) ==
    IF code = 1 THEN [last_no_out |-> i, pushed |-> <<>>]
    ELSE IF code = 2
         THEN [last_no_out |-> -1,
               pushed |-> IF last_no_out >= 0 THEN [n \in 1..(i - last_no_out) |-> last_no_out + n - 1]
                          ELSE <<>>]
    ELSE IF code = 3 THEN [last_no_out |-> -1, pushed |-> <<>>]
    ELSE [last_no_out |-> last_no_out, pushed |-> <<>>]

\* read_len < kmer_k + 2: fewer than three k-mer positions
ReadSkipped(r) == Len(r) < 3

InitMercy ==
    /\ CX1Init({RestInput})
    /\ driver = NotStarted
    /\ mercy \in { [pc |-> "next_batch", batches |-> b, batch |-> 1, scan |-> <<>>,
                    mercy_edges |-> <<>>, num_mercy_edges |-> 0,
                    package |-> <<>>, multiplicity |-> 0] : b \in MercyInputs }
    /\ dbg = NotStarted

MercyUnchanged == UNCHANGED <<input, pc, cx1, rp, lv1_items, lv2, out, g, files, emitted, driver, dbg>>

\* a batch of reads arrives: mercy_edges.clear(); no batch left: leave the loop
MercyNextBatch ==
    /\ mercy.pc = "next_batch"
    /\ IF mercy.batch <= Len(mercy.batches)
       THEN mercy' = [mercy EXCEPT
                !.pc = "scan", !.mercy_edges = <<>>,
                !.scan = [r \in 1..Len(mercy.batches[mercy.batch]) |->
                            [i |-> IF ReadSkipped(mercy.batches[mercy.batch][r])
                                   THEN Len(mercy.batches[mercy.batch][r]) ELSE 0,
                             last_no_out |-> -1]]]
       ELSE mercy' = [mercy EXCEPT !.pc = "insert", !.scan = <<>>]
    /\ MercyUnchanged

\* one iteration of the scan loop of read r (the reads run in parallel)
MercyScan(r) ==
    /\ mercy.pc = "scan"
    /\ LET read == mercy.batches[mercy.batch][r]
           st == mercy.scan[r]
       IN  /\ st.i < Len(read)
           /\ LET n == ScanPosition(FlagCode(read[st.i + 1]), st.i, st.last_no_out)
              IN  mercy' = [mercy EXCEPT
                      !.scan[r] = [i |-> st.i + 1, last_no_out |-> n.last_no_out],
                      !.mercy_edges = @ \o [x \in 1..Len(n.pushed) |->
                                               [batch |-> mercy.batch, read |-> r, pos |-> n.pushed[x]]],
                      !.num_mercy_edges = @ + Len(n.pushed)]
    /\ MercyUnchanged

\* end of the parallel loop: the mercy edges of the batch go to the package
MercyAppend ==
    /\ mercy.pc = "scan"
    /\ \A r \in 1..Len(mercy.scan) : mercy.scan[r].i = Len(mercy.batches[mercy.batch][r])
    /\ mercy' = [mercy EXCEPT !.pc = "next_batch", !.batch = @ + 1,
                              !.package = @ \o mercy.mercy_edges]
    /\ MercyUnchanged

\* globals.multiplicity.insert(end, num_mercy_edges, 1)
MercyInsertMultiplicity ==
    /\ mercy.pc = "insert"
    /\ mercy' = [mercy EXCEPT !.pc = "done", !.multiplicity = mercy.num_mercy_edges]
    /\ MercyUnchanged

NextMercy ==
    \/ MercyNextBatch
    \/ \E r \in 1..Len(mercy.scan) : MercyScan(r)
    \/ MercyAppend
    \/ MercyInsertMultiplicity

SpecMercy == InitMercy /\ [][NextMercy]_vars

\* position j of a read is a mercy edge within the first n positions: some
\* has-in-only position p <= j and some has-out-only position q > j, q < n,
\* with nothing but has-neither positions strictly between p and q
IsMercyPos(read, j, n) ==
    \E p \in 0..j : \E q \in (j + 1)..(n - 1) :
        /\ FlagCode(read[p + 1]) = 1
        /\ FlagCode(read[q + 1]) = 2
        /\ \A m \in (p + 1)..(q - 1) : FlagCode(read[m + 1]) = 0

\* last_no_out after the first n positions
ExpectedLastNoOut(read, n) ==
    IF \E p \in 0..(n - 1) : FlagCode(read[p + 1]) = 1
                             /\ \A m \in (p + 1)..(n - 1) : FlagCode(read[m + 1]) = 0
    THEN CHOOSE p \in 0..(n - 1) : FlagCode(read[p + 1]) = 1
                                   /\ \A m \in (p + 1)..(n - 1) : FlagCode(read[m + 1]) = 0
    ELSE -1

\* the positions of read r of batch b in a list of mercy edges, in order
PushedOf(edges, b, r) ==
    LET sel == SelectSeq(edges, LAMBDA e : e.batch = b /\ e.read = r)
    IN  [x \in 1..Len(sel) |-> sel[x].pos]

\* the increasing sequence of the mercy positions among the first n of a read
RECURSIVE ExpectedPushed(_, _, _)
ExpectedPushed(read, j, n) ==
    IF j >= n THEN <<>>
    ELSE (IF IsMercyPos(read, j, n) THEN <<j>> ELSE <<>>) \o ExpectedPushed(read, j + 1, n)

\* C15: while a read is scanned, last_no_out is the last has-in-only position
\* followed by has-neither positions only, and the edges pushed are, once
\* each and in order, the positions between a has-in-only position and the
\* next has-out-only position with only has-neither positions in between;
\* the package gets the mercy edges of every batch and the multiplicity list
\* gets as many entries of value 1 as the package got edges.
C15_MercyEdgeRule ==
    /\ mercy.pc = "scan" =>
          \A r \in 1..Len(mercy.scan) :
              LET read == mercy.batches[mercy.batch][r]
                  st == mercy.scan[r]
              IN  IF ReadSkipped(read)
                  THEN PushedOf(mercy.mercy_edges, mercy.batch, r) = <<>>
                  ELSE /\ st.last_no_out = ExpectedLastNoOut(read, st.i)
                       /\ PushedOf(mercy.mercy_edges, mercy.batch, r) = ExpectedPushed(read, 0, st.i)
    /\ mercy.pc \in {"next_batch", "insert", "done"} =>
          \A b \in 1..(mercy.batch - 1) : \A r \in 1..Len(mercy.batches[b]) :
              PushedOf(mercy.package, b, r) =
                  IF ReadSkipped(mercy.batches[b][r]) THEN <<>>
                  ELSE ExpectedPushed(mercy.batches[b][r], 0, Len(mercy.batches[b][r]))
    /\ mercy.num_mercy_edges =
          Len(mercy.package) + (IF mercy.pc = "scan" THEN Len(mercy.mercy_edges) ELSE 0)
    /\ mercy.pc = "done" => mercy.multiplicity = Len(mercy.package)

\* a read with has-in only at 4, neither at 5 and 6 and has-out only at 7 has
\* given exactly the mercy edges 4, 5, 6, each with one multiplicity entry
C15_Witness ==
    /\ mercy.pc = "done"
    /\ Len(mercy.batches[1][1]) = LongReadLen
    /\ FlagCode(mercy.batches[1][1][5]) = 1
    /\ FlagCode(mercy.batches[1][1][6]) = 0
    /\ FlagCode(mercy.batches[1][1][7]) = 0
    /\ FlagCode(mercy.batches[1][1][8]) = 2
    /\ PushedOf(mercy.package, 1, 1) = <<4, 5, 6>>
    /\ mercy.multiplicity = 3

(***************************************************************************)
(* Tip removal: Trim and RemoveTips on a succinct de Bruijn graph.         *)
(***************************************************************************)
MaxNodes == 4
MaxGraphEdges == 3
TipLens == {2, 3, 5}

GraphNodes == 0..(MaxNodes - 1)

\* the graphs: up to MaxGraphEdges edges between different nodes
Graphs ==
    { E \in SUBSET { e \in GraphNodes \X GraphNodes : e[1] # e[2] } :
        Cardinality(E) <= MaxGraphEdges }

\* a node has one index per outgoing edge (one if it has none); its last
\* index carries the last flag
NumIndices(E, n) == Max(1, Cardinality({ e \in E : e[1] = n }))

RECURSIVE IndexNodes(_, _)
IndexNodes(E, n) ==
    IF n >= MaxNodes THEN <<>>
    ELSE [c \in 1..NumIndices(E, n) |-> n] \o IndexNodes(E, n + 1)

\* SuccinctDBG: indices 0 .. size - 1, node_of[idx + 1] is the node of idx
NodeOf(d, idx) == d.node_of[idx + 1]
IsLast(d, idx) == idx + 1 = Len(d.node_of) \/ d.node_of[idx + 2] # d.node_of[idx + 1]
GetLastIndex(d, idx) ==
    CHOOSE l \in 0..(Len(d.node_of) - 1) : NodeOf(d, l) = NodeOf(d, idx) /\ IsLast(d, l)
GetFirstIndex(d, n) ==
    CHOOSE f \in 0..(Len(d.node_of) - 1) :
        NodeOf(d, f) = n /\ (f = 0 \/ NodeOf(d, f - 1) # n)
IsValidNode(d, idx) == NodeOf(d, idx) \in d.valid
InNodes(d, idx) == { m \in d.valid : <<m, NodeOf(d, idx)>> \in d.edges }
OutNodes(d, idx) == { m \in d.valid : <<NodeOf(d, idx), m>> \in d.edges }
IndegreeZero(d, idx) == InNodes(d, idx) = {}
OutdegreeZero(d, idx) == OutNodes(d, idx) = {}
\* the index of the edge that comes in: an index of the other node
UniqueIncoming(d, idx) ==
    IF Cardinality(InNodes(d, idx)) = 1
    THEN GetFirstIndex(d, CHOOSE m \in InNodes(d, idx) : TRUE) ELSE -1
UniqueOutgoing(d, idx) ==
    IF Cardinality(OutNodes(d, idx)) = 1
    THEN GetLastIndex(d, GetFirstIndex(d, CHOOSE m \in OutNodes(d, idx) : TRUE)) ELSE -1

\* for (int i = 1; i < len; ++i)
WalkContinues_Inclusive(i, len) == i <= len
WalkContinues(i, len) == i < len

\* the walk of the first pass of Trim, from a node without outgoing edge
RECURSIVE WalkBackward(_, _, _, _, _)
WalkBackward(d, cur_node, path, i, len) ==
    IF ~WalkContinues(i, len) THEN [path |-> path, is_tip |-> FALSE]
    ELSE LET prev_node == UniqueIncoming(d, cur_node)
         IN  IF prev_node = -1
             THEN [path |-> path, is_tip |-> IndegreeZero(d, cur_node)]
             ELSE IF UniqueOutgoing(d, prev_node) = -1
             THEN [path |-> path, is_tip |-> TRUE]
             ELSE WalkBackward(d, prev_node, Append(path, prev_node), i + 1, len)

\* the walk of the second pass of Trim, from a node without incoming edge; a
\* next node with another incoming edge sets is_tip and the loop goes on
RECURSIVE WalkForward(_, _, _, _, _, _)
WalkForward(d, cur_node, path, i, len, is_tip) ==
    IF ~WalkContinues(i, len) THEN [path |-> path, is_tip |-> is_tip]
    ELSE LET next_node == UniqueOutgoing(d, cur_node)
         IN  IF next_node = -1
             THEN [path |-> path, is_tip |-> OutdegreeZero(d, cur_node)]
             ELSE IF UniqueIncoming(d, next_node) = -1
             THEN WalkForward(d, cur_node, path, i + 1, len, TRUE)
             ELSE WalkForward(d, next_node, Append(path, next_node), i + 1, len, is_tip)

\* MarkNode for every node of a path
MarkPath(d, path) == { GetLastIndex(d, path[x]) : x \in 1..Len(path) }

AllIndices(d) == 0..(Len(d.node_of) - 1)

InitTips ==
    /\ CX1Init({RestInput})
    /\ driver = NotStarted
    /\ mercy = NotStarted
    /\ dbg \in { [pc |-> "remove_tips", edges |-> E, node_of |-> IndexNodes(E, 0),
                  valid |-> GraphNodes, marked |-> {}, max_tip_len |-> m,
                  loop_len |-> 2, len |-> 0, last_call |-> FALSE, todo |-> {},
                  walks |-> {}, trim_tips |-> 0, number_tips |-> 0,
                  lens |-> <<>>, counts |-> <<>>, returned |-> -1] :
                 E \in Graphs, m \in TipLens }

TipsUnchanged == UNCHANGED <<input, pc, cx1, rp, lv1_items, lv2, out, g, files, emitted, driver, mercy>>

\* RemoveTips calls Trim: with len of the loop, or at last with max_tip_len
TrimStart ==
    /\ dbg.pc = "remove_tips"
    /\ LET in_loop == dbg.loop_len < dbg.max_tip_len
           len == IF in_loop THEN dbg.loop_len ELSE dbg.max_tip_len
       IN  dbg' = [dbg EXCEPT !.pc = "backward", !.len = len, !.last_call = ~in_loop,
                              !.loop_len = IF in_loop THEN 2 * @ ELSE @,
                              !.lens = Append(@, len), !.marked = {},
                              !.todo = AllIndices(dbg), !.walks = {}, !.trim_tips = 0]
    /\ TipsUnchanged

\* one iteration of the first parallel loop of Trim
TrimBackward(node_idx) ==
    /\ dbg.pc = "backward" /\ node_idx \in dbg.todo
    /\ LET starts == /\ IsValidNode(dbg, node_idx) /\ node_idx \notin dbg.marked
                     /\ IsLast(dbg, node_idx) /\ OutdegreeZero(dbg, node_idx)
           w == WalkBackward(dbg, node_idx, <<node_idx>>, 1, dbg.len)
           rest == dbg.todo \ {node_idx}
           d1 == [dbg EXCEPT !.todo = IF rest = {} THEN AllIndices(dbg) ELSE rest,
                             !.pc = IF rest = {} THEN "forward" ELSE @]
       IN  IF starts
           THEN dbg' = [d1 EXCEPT
                    !.walks = @ \cup {[pass |-> "backward", path |-> w.path, is_tip |-> w.is_tip]},
                    !.marked = IF w.is_tip THEN @ \cup MarkPath(dbg, w.path) ELSE @,
                    !.trim_tips = IF w.is_tip THEN @ + 1 ELSE @]
           ELSE dbg' = d1
    /\ TipsUnchanged

\* one iteration of the second parallel loop of Trim
TrimForward(node_idx) ==
    /\ dbg.pc = "forward" /\ node_idx \in dbg.todo
    /\ LET starts == /\ IsValidNode(dbg, node_idx) /\ IsLast(dbg, node_idx)
                     /\ node_idx \notin dbg.marked /\ IndegreeZero(dbg, node_idx)
           w == WalkForward(dbg, node_idx, <<node_idx>>, 1, dbg.len, FALSE)
           rest == dbg.todo \ {node_idx}
           d1 == [dbg EXCEPT !.todo = rest,
                             !.pc = IF rest = {} THEN "invalidate" ELSE @]
       IN  IF starts
           THEN dbg' = [d1 EXCEPT
                    !.walks = @ \cup {[pass |-> "forward", path |-> w.path, is_tip |-> w.is_tip]},
                    !.marked = IF w.is_tip THEN @ \cup MarkPath(dbg, w.path) ELSE @,
                    !.trim_tips = IF w.is_tip THEN @ + 1 ELSE @]
           ELSE dbg' = d1
    /\ TipsUnchanged

\* the third loop of Trim (SetInvalid of the marked nodes), the return to
\* RemoveTips and, after the last call, the return of RemoveTips
TrimInvalidate ==
    /\ dbg.pc = "invalidate"
    /\ dbg' = [dbg EXCEPT
           !.valid = @ \ { NodeOf(dbg, idx) : idx \in dbg.marked },
           !.number_tips = @ + dbg.trim_tips,
           !.counts = Append(@, dbg.trim_tips),
           !.returned = IF dbg.last_call THEN dbg.number_tips + dbg.trim_tips ELSE @,
           !.pc = IF dbg.last_call THEN "done" ELSE "remove_tips"]
    /\ TipsUnchanged

NextTips ==
    \/ TrimStart
    \/ \E node_idx \in AllIndices(dbg) : TrimBackward(node_idx)
    \/ \E node_idx \in AllIndices(dbg) : TrimForward(node_idx)
    \/ TrimInvalidate

SpecTips == InitTips /\ [][NextTips]_vars

\* the nodes of a path, and the neighbours of a node among the valid nodes
PathNode(w, x) == NodeOf(dbg, w.path[x])
ValidIn(n) == { m \in dbg.valid : <<m, n>> \in dbg.edges }
ValidOut(n) == { m \in dbg.valid : <<n, m>> \in dbg.edges }
\* towards(n): the neighbours in the walking direction, back(n): the others
Towards(w, n) == IF w.pass = "backward" THEN ValidIn(n) ELSE ValidOut(n)
Back(w, n) == IF w.pass = "backward" THEN ValidOut(n) ELSE ValidIn(n)

\* the walk stops at its last node: no neighbour in the walking direction, or
\* one neighbour, which has another edge back
StopsAtEnd(w) ==
    LET end == PathNode(w, Len(w.path))
    IN  \/ Towards(w, end) = {}
        \/ \E m \in Towards(w, end) : Towards(w, end) = {m} /\ Back(w, m) # {end}

SimplePath(w) ==
    \A x \in 1..(Len(w.path) - 1) :
        /\ Towards(w, PathNode(w, x)) = {PathNode(w, x + 1)}
        /\ Back(w, PathNode(w, x + 1)) = {PathNode(w, x)}

\* 2, 4, 8, ... below max_tip_len, then max_tip_len
RECURSIVE DoublingLens(_, _)
DoublingLens(len, max_tip_len) ==
    IF len < max_tip_len THEN <<len>> \o DoublingLens(2 * len, max_tip_len)
    ELSE <<max_tip_len>>

\* C19: a walk of Trim(dbg, len) starts at a valid last-flagged node without
\* outgoing (first pass) or incoming (second pass) edge; it marks its path
\* only if the path is simple, has fewer than len nodes and stops at a node
\* with no neighbour in the walking direction or whose only such neighbour
\* branches; a path that reaches len nodes is not marked, and only the paths
\* of tips are marked. RemoveTips calls Trim with 2, 4, 8, ... below
\* max_tip_len and then max_tip_len, so a marked path has fewer than
\* max_tip_len nodes, and returns the sum of the tips of all calls.
C19_TipRemoval ==
    /\ dbg.pc \in {"backward", "forward", "invalidate"} =>
          \A w \in dbg.walks :
              /\ IsValidNode(dbg, w.path[1]) /\ IsLast(dbg, w.path[1])
              /\ Back(w, PathNode(w, 1)) = {}
              /\ SimplePath(w)
              /\ w.is_tip => Len(w.path) < dbg.len /\ Len(w.path) < dbg.max_tip_len /\ StopsAtEnd(w)
              /\ Len(w.path) >= dbg.len => ~w.is_tip
    /\ dbg.pc \in {"backward", "forward", "invalidate"} =>
          /\ dbg.marked = UNION { MarkPath(dbg, w.path) : w \in { v \in dbg.walks : v.is_tip } }
          /\ dbg.trim_tips = Cardinality({ v \in dbg.walks : v.is_tip })
    /\ dbg.pc = "done" =>
          /\ dbg.lens = DoublingLens(2, dbg.max_tip_len)
          /\ Len(dbg.counts) = Len(dbg.lens)
          /\ dbg.returned = SumSeq(dbg.counts)

\* in one call of Trim a path was marked as a tip because the only neighbour
\* of its end branches, and another walk has reached len nodes and was left
\* alone
C19_Witness ==
    /\ dbg.pc = "invalidate"
    /\ \E w \in dbg.walks :
          /\ w.is_tip
          /\ Towards(w, PathNode(w, Len(w.path))) # {}
          /\ MarkPath(dbg, w.path) \subseteq dbg.marked
    /\ \E w \in dbg.walks :
          /\ ~w.is_tip /\ Len(w.path) = dbg.len
          /\ MarkPath(dbg, w.path) \cap dbg.marked = {}

(***************************************************************************)
(* Scenarios of a single edge, k = ScenarioK.                              *)
(***************************************************************************)
Bases == 0..3
ScenarioMultiValues == {5}

\* the edges A...T; four of them are their own reverse complement
ScenarioEdges ==
    { q \in [1..(ScenarioK + 1) -> Bases] : q[1] = 0 /\ q[ScenarioK + 1] = 3 }

ScenarioInputs ==
    { [pipeline |-> "seq", kmer_k |-> ScenarioK, package |-> <<q>>, multiplicity |-> <<m>>,
       is_solid |-> <<>>,
       num_cpu_threads |-> 1, num_output_threads |-> t, mem_flag |-> f] :
      q \in ScenarioEdges, m \in ScenarioMultiValues, t \in 1..MaxOutputThreads, f \in MemFlags }
    \cup
    { [pipeline |-> "read", kmer_k |-> ScenarioK, package |-> <<q>>, multiplicity |-> <<>>,
       is_solid |-> <<TRUE>>,
       num_cpu_threads |-> 1, num_output_threads |-> t, mem_flag |-> f] :
      q \in ScenarioEdges, t \in 1..MaxOutputThreads, f \in MemFlags }

InitScenario ==
    /\ CX1Init(ScenarioInputs)
    /\ driver = NotStarted
    /\ mercy = NotStarted
    /\ dbg = NotStarted

SpecScenario == InitScenario /\ [][Next]_vars

\* the input is one edge that equals its own reverse complement
PalindromicEdge(q) == \A j \in 1..Len(q) : q[j] = 3 - q[Len(q) + 1 - j]
PalindromeInput == Len(input.package) = 1 /\ PalindromicEdge(input.package[1])

\* what one strand of the edge adds to bucket b
OneStrandCount(b) ==
    LET occ == OccOf(input, 0)
    IN  Cardinality({ n \in 1..Len(occ) : occ[n].strand = 0 /\ occ[n].key = b })

\* the positions of the sorted level-2 batch that hold the edge itself: the
\* items with a predecessor and a last character
EdgeItemPositions ==
    { n \in 1..Len(SortedDb) :
        /\ SortedDb[n].non_dollar = 1 /\ SortedDb[n].prev # kSentinelValue
        /\ <<SortedDb[n].prev>> \o SortedDb[n].chars = input.package[1] }

\* C13 as stated: of an edge that is its own reverse complement only one
\* strand is taken, by the bucket-size pass and by the level-1 fill pass, in
\* the edge pipeline and in the read pipeline, so the sorted level-2 batch
\* holds the edge once and not twice.
C13_PalindromeOnce ==
    PalindromeInput =>
        /\ pc # "lv0" => \A b \in 0..(NumBuckets(input) - 1) :
                            cx1.bucket_sizes[b] = OneStrandCount(b)
        /\ Cardinality(EdgeItemPositions) <= 1

\* C13 amended: the read pipeline takes one strand of an edge that is its own
\* reverse complement, in both passes, and the sorted level-2 batch holds the
\* edge once; the edge pipeline takes both strands of every edge, in both
\* passes, and the sorted level-2 batch holds the edge of such an input twice,
\* as two equal items.
C13_PalindromeStrands ==
    PalindromeInput =>
        /\ input.pipeline = "read" =>
              /\ pc # "lv0" => \A b \in 0..(NumBuckets(input) - 1) :
                                  cx1.bucket_sizes[b] = OneStrandCount(b)
              /\ Cardinality(EdgeItemPositions) <= 1
        /\ input.pipeline = "seq" =>
              /\ pc # "lv0" => \A b \in 0..(NumBuckets(input) - 1) :
                                  cx1.bucket_sizes[b] = 2 * OneStrandCount(b)
              /\ Cardinality(EdgeItemPositions) \in {0, 2}
              /\ \A m, n \in EdgeItemPositions : SortedDb[m] = SortedDb[n]

\* the edge pipeline has sorted the batch of the edge ACGT, which holds it twice
C13_Witness ==
    /\ PalindromeInput /\ input.pipeline = "seq"
    /\ input.package[1] = <<0, 1, 2, 3>>
    /\ Cardinality(EdgeItemPositions) = 2

\* the read pipeline has sorted the batch of the edge ACGT, which holds it once
C13_WitnessRead ==
    /\ PalindromeInput /\ input.pipeline = "read"
    /\ input.package[1] = <<0, 1, 2, 3>>
    /\ Cardinality(EdgeItemPositions) = 1

\* scenario S1: k = 3, the edge pipeline, the single edge ACGT of multiplicity 5
ScenarioS1 ==
    /\ input.pipeline = "seq" /\ input.kmer_k = 3
    /\ input.package = << <<0, 1, 2, 3>> >> /\ input.multiplicity = <<5>>

\* C14 as stated: scenario S1 ends with total_number_edges = 2, one class
\* entry of .f between the leading -1 and the tail, and the multiplicity
\* stream [0, 5].
C14_ScenarioS1 ==
    ScenarioS1 /\ pc = "done" =>
        /\ g.total_number_edges = 2
        /\ Len(FCounts) = 1
        /\ files.mul = <<0, 5>>

\* what the code gives for S1 when one worker writes: $ACG, ACGT and the
\* dummy node CGT$
C14_ScenarioS1OneWriter ==
    ScenarioS1 /\ pc = "done" /\ input.num_output_threads = 1 =>
        /\ g.total_number_edges = 3
        /\ FCounts = <<0, 1, 2>>
        /\ files.mul = <<0, 5, 0>>
        /\ files.isd = <<0, 0, 1>>

(***************************************************************************)
(* The edge pipeline on sequences of several lengths, among them sequences *)
(* shorter than kmer_k + 1.                                                *)
(***************************************************************************)
\* a sequence has up to MaxShortBy bases less and up to MaxLongBy bases
\* more than kmer_k + 1
MaxShortBy == 2
MaxLongBy == 1

LengthSequences ==
    UNION { [1..n -> InputAlphabet] :
              n \in (ScenarioK + 1 - MaxShortBy)..(ScenarioK + 1 + MaxLongBy) }

\* one sequence, or a sequence shorter than kmer_k + 1 followed by another
LengthPackages ==
    { <<q>> : q \in LengthSequences }
    \cup { <<q1, q2>> : q1 \in { q \in LengthSequences : Len(q) < ScenarioK + 1 },
                        q2 \in { q \in LengthSequences : Len(q) >= ScenarioK + 1 } }

LengthInputs ==
    { [pipeline |-> "seq", kmer_k |-> ScenarioK, package |-> x[1], multiplicity |-> x[2],
       is_solid |-> <<>>,
       num_cpu_threads |-> 1, num_output_threads |-> 1, mem_flag |-> 1] :
      x \in UNION { {<<p, m>> : m \in Multiplicities(p)} : p \in LengthPackages } }

InitLengths ==
    /\ CX1Init(LengthInputs)
    /\ driver = NotStarted
    /\ mercy = NotStarted
    /\ dbg = NotStarted

SpecLengths == InitLengths /\ [][Next]_vars

\* base i of a strand of sequence id: the sequence, or its reverse complement
StrandBase(p, id, strand, i) ==
    IF strand = 0 THEN get_base(p, id, i) ELSE 3 - get_base(p, id, length(p, id) - 1 - i)

\* the bucket of the n bases of a strand that end at position i
RECURSIVE WindowBucket(_, _, _, _, _)
WindowBucket(p, id, strand, i, n) ==
    IF n = 0 THEN 0
    ELSE WindowBucket(p, id, strand, i - 1, n - 1) * kBucketBase
         + StrandBase(p, id, strand, i) + 1

\* number of (strand, position) pairs of sequence id with positions
\* kBucketPrefixLength - 1 .. last whose window is bucket b
PositionsOfBucket(p, id, b, last) ==
    IF length(p, id) < kmer_k + 1 THEN 0
    ELSE Cardinality({ x \in {0, 1} \X ((kBucketPrefixLength - 1)..last) :
                         WindowBucket(p, id, x[1], x[2], kBucketPrefixLength) = b })

\* the bucket sizes of a package when every sequence of length >= kmer_k + 1
\* counts the positions up to length - kmer_k + kBucketPrefixLength + d
SizesUpTo(d) ==
    [b \in 0..(kNumBuckets - 1) |->
        SumSeq([j \in 1..Len(input.package) |->
                  PositionsOfBucket(input.package, j - 1, b,
                      length(input.package, j - 1) - kmer_k + kBucketPrefixLength + d)])]

\* C24 as stated: for every sequence of length >= k+1 and each strand,
\* lv0_calc_bucket_size counts one occurrence for each window-end position
\* i in [B-1, length-k+B-2] and none for any other position; shorter
\* sequences contribute nothing.
C24_PreprocessorRange ==
    pc # "lv0" => cx1.bucket_sizes = SizesUpTo(-2)

\* C24, amended: for every sequence of length >= k+1 and each strand,
\* lv0_calc_bucket_size counts one occurrence for each window-end position
\* i in [B-1, length-k+B] and none for any other position (length-k+2
\* positions per strand: the length-k edges and the two edges that straddle
\* a $); shorter sequences contribute nothing.
C24_PreprocessorRangeCode ==
    pc # "lv0" => cx1.bucket_sizes = SizesUpTo(0)

\* the bucket sizes of a package that holds a sequence shorter than k+1 and
\* a sequence longer than k+1
C24_Witness ==
    /\ pc = "init"
    /\ \E j \in 1..Len(input.package) : Len(input.package[j]) < kmer_k + 1
    /\ \E j \in 1..Len(input.package) : Len(input.package[j]) > kmer_k + 1
    /\ \E b \in 0..(kNumBuckets - 1) : cx1.bucket_sizes[b] > 1

\* the bucket sizes of a package of one sequence shorter than k+1
C24_WitnessShort ==
    /\ pc = "init"
    /\ Len(input.package) = 1 /\ Len(input.package[1]) < kmer_k + 1
    /\ \A b \in 0..(kNumBuckets - 1) : cx1.bucket_sizes[b] = 0

(***************************************************************************)
(* Properties of the level-2 extraction (edge pipeline).                   *)
(***************************************************************************)
\* (seq_id, offset, strand) of a full offset of the edge pipeline
DecodeEdgeOffset(p, full_offset) ==
    LET seq_id == get_id(p, full_offset \div 2)
    IN  [ seq_id |-> seq_id,
          offset |-> (full_offset \div 2) - get_start_index(p, seq_id),
          strand |-> full_offset % 2 ]

\* the item the claim describes for (seq_id, offset, strand)
DescribedItem(p, mul, d) ==
    LET L == length(p, d.seq_id)
        n == IF d.offset + kmer_k > L THEN kmer_k - 1 ELSE kmer_k
    IN  [ chars |-> [j \in 1..kmer_k |->
                       IF j <= n THEN StrandBase(p, d.seq_id, d.strand, d.offset + j - 1)
                       ELSE 0],
          non_dollar |-> IF n = kmer_k THEN 1 ELSE 0,
          prev |-> IF d.offset = 0 THEN kSentinelValue
                   ELSE StrandBase(p, d.seq_id, d.strand, d.offset - 1),
          inv |-> IF 0 < d.offset /\ d.offset + kmer_k <= L
                  THEN kMaxMulti_t - Min(kMaxMulti_t, mul[d.seq_id + 1])
                  ELSE kMaxMulti_t ]

\* C25: for a decoded (seq_id, offset, strand) the level-2 item of the edge
\* pipeline holds k bases of the strand's sequence from offset, or k-1 bases
\* when offset + k exceeds the length; the has-char flag is 1 iff k bases
\* were copied; the BWT char is the sentinel when offset = 0 and otherwise
\* the base at offset - 1 of that strand; the multiplicity field is
\* M_MAX - min(M_MAX, multiplicity[seq_id]) when 0 < offset and
\* offset + k <= length, and M_MAX otherwise.
C25_Lv2Extraction ==
    (input.pipeline = "seq" /\ pc \in {"sort", "pre_output"}) =>
        /\ Len(lv2.lv2_substrings) = Len(BatchOffsets)
        /\ Len(lv2.lv2_substrings) = cx1.lv2_num_items
        /\ \A n \in 1..Len(BatchOffsets) :
              lv2.lv2_substrings[n]
              = DescribedItem(input.package, input.multiplicity,
                              DecodeEdgeOffset(input.package, BatchOffsets[n]))

\* an extracted batch holds an item of the reverse strand with the multiplicity
C25_WitnessReverse ==
    /\ input.pipeline = "seq" /\ pc = "sort"
    /\ \E n \in 1..Len(BatchOffsets) :
          LET d == DecodeEdgeOffset(input.package, BatchOffsets[n])
          IN  /\ d.strand = 1 /\ d.offset > 0
              /\ lv2.lv2_substrings[n].non_dollar = 1
              /\ lv2.lv2_substrings[n].inv < kMaxMulti_t - kMaxMulti2_t

\* an extracted batch of a sequence longer than k+1 whose multiplicity is
\* above 255: it holds an item of offset 0, an item of k-1 bases and an
\* item with the multiplicity, all of one strand
C25_Witness ==
    /\ input.pipeline = "seq" /\ pc = "sort"
    /\ \E j \in 1..Len(input.package) :
          Len(input.package[j]) > kmer_k + 1 /\ input.multiplicity[j] > kMaxMulti2_t
    /\ \E strand \in {0, 1} :
          /\ \E n \in 1..Len(BatchOffsets) :
                LET d == DecodeEdgeOffset(input.package, BatchOffsets[n])
                IN  d.strand = strand /\ d.offset = 0
          /\ \E n \in 1..Len(BatchOffsets) :
                LET d == DecodeEdgeOffset(input.package, BatchOffsets[n])
                IN  d.strand = strand /\ lv2.lv2_substrings[n].non_dollar = 0
          /\ \E n \in 1..Len(BatchOffsets) :
                LET d == DecodeEdgeOffset(input.package, BatchOffsets[n])
                IN  d.strand = strand /\ lv2.lv2_substrings[n].inv < kMaxMulti_t - kMaxMulti2_t

(***************************************************************************)
(* GenMercyEdges: the lookup table over the sorted edges and the binary    *)
(* search for a k-mer or a (k+1)-mer (InitLookupTable, BinarySearchKmer).  *)
(***************************************************************************)
\* bases of the prefix that indexes the lookup table (scaled down)
kLookUpPrefixLength == 2
\* bases of an edge of the store
LookupEdgeLen == 3
\* largest number of edges in the store
MaxLookupEdges == 3

kLookUpSize == 4 ^ kLookUpPrefixLength

LookupEdges == [1..LookupEdgeLen -> InputAlphabet]

\* the stores: 0 .. MaxLookupEdges edges in non-decreasing order
LookupStores ==
    UNION { { st \in [1..n -> LookupEdges] :
                \A j \in 1..(n - 1) :
                    CharsValue(st[j], LookupEdgeLen) <= CharsValue(st[j + 1], LookupEdgeLen) } :
            n \in 0..MaxLookupEdges }

\* the k-mers searched for: 1 .. LookupEdgeLen bases
LookupKmers == UNION { [1..n -> InputAlphabet] : n \in 1..LookupEdgeLen }

\* kmer.data_[0] >> kLookUpShift: the first kLookUpPrefixLength base slots of
\* the word; the slots after the last base hold 0
LookupPrefix(q) ==
    CharsValue([j \in 1..kLookUpPrefixLength |-> IF j <= Len(q) THEN q[j] ELSE 0],
               kLookUpPrefixLength)

\* kmer.cmp(mid_kmer, kmer_size), mid_kmer being the first kmer_size bases
\* of an edge: -1, 0 or 1
KmerCmp(kmer, edge, kmer_size) ==
    LET a == CharsValue(kmer, kmer_size)
        b == CharsValue(edge, kmer_size)
    IN  IF a < b THEN -1 ELSE IF a > b THEN 1 ELSE 0

\* a table whose last range is left open
LastEdgeIndex_Missing(st) == -1

\* p.size() - 1, the end of the range of the last prefix
LastEdgeIndex(st) == Len(st) - 1

\* the loop of InitLookupTable from edge i (0-based) on
RECURSIVE LookupLoop(_, _, _, _)
LookupLoop(table, st, i, cur_prefix) ==
    IF i >= Len(st)
    THEN [table EXCEPT ![cur_prefix * 2 + 1] = LastEdgeIndex(st)]
    ELSE LET pre == LookupPrefix(st[i + 1])
         IN  IF pre > cur_prefix
             THEN LookupLoop([table EXCEPT ![cur_prefix * 2 + 1] = i - 1,
                                           ![pre * 2] = i],
                             st, i + 1, pre)
             ELSE LookupLoop(table, st, i + 1, cur_prefix)

\* InitLookupTable: entries 0 .. 2 * kLookUpSize - 1
InitLookupTable(st) ==
    LET cleared == [x \in 0..(2 * kLookUpSize - 1) |-> -1]
    IN  IF Len(st) = 0 THEN cleared
        ELSE LookupLoop([cleared EXCEPT ![LookupPrefix(st[1]) * 2] = 0],
                        st, 1, LookupPrefix(st[1]))

InitLookup ==
    /\ CX1Init({RestInput})
    /\ driver = NotStarted
    /\ dbg = NotStarted
    /\ \E st \in LookupStores :
          mercy = [ pc |-> "init_lookup", package |-> st, lookup_table |-> <<>>,
                    kmer |-> <<>>, kmer_size |-> 0, l |-> 0, r |-> 0,
                    result |-> -1, steps |-> 0, width |-> 0 ]

\* GenMercyEdges builds the table before the first search
LookupInit ==
    /\ mercy.pc = "init_lookup"
    /\ mercy' = [mercy EXCEPT !.pc = "ready",
                              !.lookup_table = InitLookupTable(mercy.package)]
    /\ MercyUnchanged

\* BinarySearchKmer up to the loop: the first look up
SearchStart(kmer) ==
    /\ mercy.pc = "ready"
    /\ LET l == mercy.lookup_table[LookupPrefix(kmer) * 2]
           r == mercy.lookup_table[LookupPrefix(kmer) * 2 + 1]
       IN  mercy' = IF l = -1
                    THEN [mercy EXCEPT !.pc = "returned", !.kmer = kmer,
                                       !.kmer_size = Len(kmer), !.result = -1,
                                       !.steps = 0, !.width = 0]
                    ELSE [mercy EXCEPT !.pc = "loop", !.kmer = kmer,
                                       !.kmer_size = Len(kmer), !.l = l, !.r = r,
                                       !.steps = 0, !.width = r - l + 1]
    /\ MercyUnchanged

\* one iteration of while (l <= r)
SearchStep ==
    /\ mercy.pc = "loop"
    /\ mercy.l <= mercy.r
    /\ LET mid == (mercy.l + mercy.r) \div 2
           cmp == KmerCmp(mercy.kmer, mercy.package[mid + 1], mercy.kmer_size)
       IN  mercy' =
             IF cmp > 0
             THEN [mercy EXCEPT !.l = mid + 1, !.steps = @ + 1,
                                !.width = mercy.r - mercy.l + 1]
             ELSE IF cmp < 0
             THEN [mercy EXCEPT !.r = mid - 1, !.steps = @ + 1,
                                !.width = mercy.r - mercy.l + 1]
             ELSE [mercy EXCEPT !.pc = "returned", !.result = mid, !.steps = @ + 1]
    /\ MercyUnchanged

\* the loop ends without a match: return -1
SearchFail ==
    /\ mercy.pc = "loop"
    /\ mercy.l > mercy.r
    /\ mercy' = [mercy EXCEPT !.pc = "returned", !.result = -1]
    /\ MercyUnchanged

\* the caller goes on to its next search
SearchAgain ==
    /\ mercy.pc = "returned"
    /\ mercy' = [mercy EXCEPT !.pc = "ready", !.kmer = <<>>, !.kmer_size = 0,
                              !.l = 0, !.r = 0, !.result = -1, !.steps = 0, !.width = 0]
    /\ MercyUnchanged

NextLookup ==
    \/ LookupInit
    \/ \E kmer \in LookupKmers : SearchStart(kmer)
    \/ SearchStep
    \/ SearchFail
    \/ SearchAgain

SpecLookup == InitLookup /\ [][NextLookup]_vars

\* the indices (0-based) of the edges whose lookup prefix is v
EdgesOfPrefix(st, v) == { i \in 0..(Len(st) - 1) : LookupPrefix(st[i + 1]) = v }

\* the indices of the edges whose first n bases are kmer
EdgesOfKmer(st, kmer) ==
    { i \in 0..(Len(st) - 1) : SubSeq(st[i + 1], 1, Len(kmer)) = kmer }

\* the table is the one the claim describes
TableDescribed ==
    mercy.pc # "init_lookup" =>
        \A v \in 0..(kLookUpSize - 1) :
            LET E == EdgesOfPrefix(mercy.package, v)
            IN  IF E = {}
                THEN mercy.lookup_table[2 * v] = -1 /\ mercy.lookup_table[2 * v + 1] = -1
                ELSE /\ mercy.lookup_table[2 * v] \in E
                     /\ \A i \in E : mercy.lookup_table[2 * v] <= i
                     /\ mercy.lookup_table[2 * v + 1] \in E
                     /\ \A i \in E : i <= mercy.lookup_table[2 * v + 1]

\* every iteration narrows [l, r], so the loop ends
SearchTerminates ==
    mercy.pc = "loop" =>
        /\ mercy.r - mercy.l + 1 >= 0
        /\ mercy.steps > 0 => mercy.r - mercy.l + 1 < mercy.width
        /\ mercy.steps <= Len(mercy.package)

\* the result of a finished search of a kmer of at least min_size bases
SearchDescribed(min_size) ==
    (mercy.pc = "returned" /\ mercy.kmer_size >= min_size) =>
        LET E == EdgesOfKmer(mercy.package, mercy.kmer)
        IN  IF E = {} THEN mercy.result = -1 ELSE mercy.result \in E

C27_WitnessAbsent ==
    /\ mercy.pc = "returned" /\ mercy.result = -1
    /\ mercy.kmer_size >= kLookUpPrefixLength /\ mercy.steps >= 1

(***************************************************************************)
(* s2_read_mercy_prepare: the candidates of one file are sorted, split     *)
(* among the threads by hand, and each thread marks its reads.             *)
(***************************************************************************)
\* largest number of candidates in a file
MaxCands == 3
\* the candidates belong to the reads 0 .. MaxCandRead
MaxCandRead == 2
\* largest num_cpu_threads of the distribution
MaxPrepareThreads == 3

\* a candidate: (read_id << (offset_num_bits + 2)) | (offset << 2) | flag,
\* flag 1 = no in, 2 = no out
CandCode(read_id, offset, flag) ==
    read_id * (2 ^ (offset_num_bits + 2)) + offset * 4 + flag

\* mercy_cand[i] >> (offset_num_bits + 2)
CandRead(c) == c \div (2 ^ (offset_num_bits + 2))

Cands == { CandCode(r, 0, f) : r \in 0..MaxCandRead, f \in {1, 2} }

\* the content of a candidate file, in file order
CandFiles == UNION { [1..n -> Cands] : n \in 0..MaxCands }

InitPrepare ==
    /\ CX1Init({RestInput})
    /\ driver = NotStarted
    /\ dbg = NotStarted
    /\ \E file \in CandFiles, T \in 1..MaxPrepareThreads :
          mercy = [ pc |-> "read_file", file |-> file, num_cpu_threads |-> T,
                    mercy_cand |-> <<>>, avg |-> 0, tid |-> 0,
                    start_idx |-> [t \in 0..(T - 1) |-> 0],
                    end_idx |-> [t \in 0..(T - 1) |-> 0],
                    i |-> [t \in 0..(T - 1) |-> 0],
                    read_marker |-> {},
                    out_of_range |-> {} ]

\* the file is read into mercy_cand and sorted; avg = DivCeiling(size, T)
PrepareReadAndSort ==
    /\ mercy.pc = "read_file"
    /\ mercy' = [mercy EXCEPT !.pc = "distribute",
                              !.mercy_cand = SortList(mercy.file),
                              !.avg = DivCeiling(Len(mercy.file), mercy.num_cpu_threads)]
    /\ MercyUnchanged

\* the while loop that moves this_end to the end of the run of read_id
RECURSIVE RunEnd(_, _, _)
RunEnd(cand, this_end, read_id) ==
    IF this_end < Len(cand) /\ CandRead(cand[this_end + 1]) = read_id
    THEN RunEnd(cand, this_end + 1, read_id)
    ELSE this_end

\* one iteration of the loop "manually distribute threads".  It reads
\* mercy_cand[this_end] before it compares this_end with the size: with
\* this_end = size the read is outside the vector, the value is whatever
\* the memory holds (the loop that follows does not run, so it is not
\* used), or the read faults
PrepareDistribute(crash) ==
    /\ mercy.pc = "distribute"
    /\ mercy.tid < mercy.num_cpu_threads
    /\ LET tid == mercy.tid
           size == Len(mercy.mercy_cand)
           start == IF tid = 0 THEN 0 ELSE mercy.end_idx[tid - 1]
           this_end == Min(start + mercy.avg, size)
       IN  IF this_end >= size
           THEN mercy' =
                  IF crash
                  THEN [mercy EXCEPT !.pc = "fault",
                                     !.out_of_range = @ \cup {this_end}]
                  ELSE [mercy EXCEPT !.start_idx[tid] = start,
                                     !.end_idx[tid] = this_end,
                                     !.i[tid] = start,
                                     !.tid = tid + 1,
                                     !.out_of_range = @ \cup {this_end}]
           ELSE /\ ~crash
                /\ mercy' = [mercy EXCEPT
                     !.start_idx[tid] = start,
                     !.end_idx[tid] =
                         RunEnd(mercy.mercy_cand, this_end,
                                CandRead(mercy.mercy_cand[this_end + 1])),
                     !.i[tid] = start,
                     !.tid = tid + 1]
    /\ MercyUnchanged

\* the parallel loop starts
PrepareStartThreads ==
    /\ mercy.pc = "distribute"
    /\ mercy.tid = mercy.num_cpu_threads
    /\ mercy' = [mercy EXCEPT !.pc = "parallel"]
    /\ MercyUnchanged

\* the inner while of a thread: the end of the candidates of read_id
\* inside the thread's range
RECURSIVE ReadEnd(_, _, _, _)
ReadEnd(cand, i, end, read_id) ==
    IF i # end /\ CandRead(cand[i + 1]) = read_id
    THEN ReadEnd(cand, i + 1, end, read_id)
    ELSE i

\* thread tid takes its next read: assert(!read_marker.get(read_id)), set
\* the marker, pass the candidates of the read
PrepareRead(tid) ==
    /\ mercy.pc = "parallel"
    /\ mercy.i[tid] # mercy.end_idx[tid]
    /\ LET read_id == CandRead(mercy.mercy_cand[mercy.i[tid] + 1])
       IN  mercy' =
             IF read_id \in mercy.read_marker
             THEN [mercy EXCEPT !.pc = "assert_failed"]
             ELSE [mercy EXCEPT
                     !.read_marker = @ \cup {read_id},
                     !.i[tid] = ReadEnd(mercy.mercy_cand, mercy.i[tid],
                                        mercy.end_idx[tid], read_id)]
    /\ MercyUnchanged

\* every thread has passed its range: fclose
PrepareJoin ==
    /\ mercy.pc = "parallel"
    /\ \A tid \in 0..(mercy.num_cpu_threads - 1) : mercy.i[tid] = mercy.end_idx[tid]
    /\ mercy' = [mercy EXCEPT !.pc = "file_done"]
    /\ MercyUnchanged

NextPrepare ==
    \/ PrepareReadAndSort
    \/ \E crash \in BOOLEAN : PrepareDistribute(crash)
    \/ PrepareStartThreads
    \/ \E tid \in 0..(mercy.num_cpu_threads - 1) : PrepareRead(tid)
    \/ PrepareJoin

SpecPrepare == InitPrepare /\ [][NextPrepare]_vars

\* the threads whose range is set
Distributed == 0..((IF mercy.pc = "distribute" THEN mercy.tid ELSE mercy.num_cpu_threads) - 1)

\* the ranges are contiguous and disjoint, cover the sorted array, and
\* keep the candidates of a read together
RangesDescribed ==
    mercy.pc \in {"distribute", "parallel", "file_done"} =>
        /\ \A t \in Distributed :
              /\ mercy.start_idx[t] = (IF t = 0 THEN 0 ELSE mercy.end_idx[t - 1])
              /\ mercy.start_idx[t] <= mercy.end_idx[t]
              /\ mercy.end_idx[t] <= Len(mercy.mercy_cand)
              /\ \A x \in 1..Len(mercy.mercy_cand), y \in 1..Len(mercy.mercy_cand) :
                    (/\ CandRead(mercy.mercy_cand[x]) = CandRead(mercy.mercy_cand[y])
                     /\ mercy.start_idx[t] < x /\ x <= mercy.end_idx[t])
                    => (mercy.start_idx[t] < y /\ y <= mercy.end_idx[t])
        /\ mercy.pc # "distribute" =>
              mercy.end_idx[mercy.num_cpu_threads - 1] = Len(mercy.mercy_cand)

\* C30: in s2_read_mercy_prepare, for every candidate file (an empty one
\* included) and every thread count, each index used to read mercy_cand
\* during the manual thread distribution is smaller than mercy_cand.size();
\* the worker ranges are contiguous, disjoint and cover the sorted array,
\* all candidates of one read fall into one worker's range, and the
\* assertion that a read is not yet marked never fails within a file.
C30_MercyDistribution ==
    /\ mercy.out_of_range = {}
    /\ mercy.pc \notin {"fault", "assert_failed"}
    /\ RangesDescribed

\* what holds of the code: the ranges and the assertion, in every run in
\* which the read outside the vector does not fault
C30_RangesAndAssertion ==
    /\ mercy.pc # "assert_failed"
    /\ RangesDescribed

\* the distribution has read mercy_cand[size] for its last thread
C30_LastThreadReadsOutside ==
    mercy.pc \in {"parallel", "file_done"} => Len(mercy.mercy_cand) \in mercy.out_of_range

(***************************************************************************)
(* Properties of lv2_pre_output_partition.                                 *)
(***************************************************************************)
\* the partition is also computed for 1 .. MaxPartitionThreads workers on
\* every batch the pipeline reaches
MaxPartitionThreads == 4

\* the marks of the workers of a partition, worker after worker
RECURSIVE WorkerMarks(_, _, _)
WorkerMarks(D, op, t) ==
    IF t > Len(op) THEN <<>>
    ELSE MarkRange(D, op[t].op_start_index, op[t].op_end_index, NoLastA)
         \o WorkerMarks(D, op, t + 1)

\* the marks of one worker whose range is the whole batch
SingleWorkerMarks(D, N) == MarkRange(D, 0, N, NoLastA)

\* the ranges are in increasing order, disjoint and cover [0, N); a boundary
\* inside the batch separates two groups; the workers' marks are those of a
\* single worker
PartitionDescribed(D, N, op) ==
    /\ op[1].op_start_index = 0
    /\ op[Len(op)].op_end_index = N
    /\ \A t \in 1..Len(op) :
          /\ op[t].op_start_index <= op[t].op_end_index
          /\ t < Len(op) =>
                /\ op[t + 1].op_start_index = op[t].op_end_index
                /\ (0 < op[t].op_end_index /\ op[t].op_end_index < N) =>
                      IsDiffKMinusOneMer(D[op[t].op_end_index + 1], D[op[t].op_end_index])
    /\ \A i \in 0..(N - 1) :
          Cardinality({ t \in 1..Len(op) :
                          op[t].op_start_index <= i /\ i < op[t].op_end_index }) = 1
    /\ WorkerMarks(D, op, 1) = SingleWorkerMarks(D, N)

\* a batch has been handed to the output workers
Partitioned == \A t \in 1..Len(out) : out[t].pc # "idle"

\* the records of a sequence of marks, as MarkSet shows them
ShownMarks(marks) ==
    { [i |-> m.i, w |-> m.w, last |-> m.last, is_dollar |-> m.is_dollar] :
      m \in Range(marks) }

\* C28: for every batch size N >= 0 and every number of output workers the
\* ranges of lv2_pre_output_partition are in increasing order, pairwise
\* disjoint and cover [0, N) exactly; every boundary between two ranges
\* lies between two sorted items with different (k-1)-mers, so that no
\* group is split and the workers' labels equal those of a single worker.
C28_OutputPartitioning ==
    /\ \A T \in 1..MaxPartitionThreads :
          PartitionDescribed(<<>>, 0, lv2_pre_output_partition(<<>>, 0, T))
    /\ Partitioned =>
        /\ cx1.op = lv2_pre_output_partition(SortedDb, lv2.lv2_num_items_db,
                                             input.num_output_threads)
        /\ \A T \in 1..MaxPartitionThreads :
              PartitionDescribed(SortedDb, lv2.lv2_num_items_db,
                  lv2_pre_output_partition(SortedDb, lv2.lv2_num_items_db, T))
        /\ Labelled = 1..Len(out) =>
              MarkSet = ShownMarks(SingleWorkerMarks(SortedDb, lv2.lv2_num_items_db))

\* a batch of at least T items whose first range, for some number T of
\* workers, was extended to the end of a group and stops inside the batch
C28_Witness ==
    /\ Partitioned
    /\ \E T \in 2..MaxPartitionThreads :
          LET N == lv2.lv2_num_items_db
              op == lv2_pre_output_partition(SortedDb, N, T)
          IN  /\ N >= T
              /\ op[1].op_end_index > N \div T
              /\ op[1].op_end_index < N
              /\ SingleWorkerMarks(SortedDb, N) # <<>>

\* two workers have labelled their ranges of a batch, both not empty
C28_WitnessWorkers ==
    /\ Partitioned
    /\ Len(out) = 2
    /\ Labelled = 1..Len(out)
    /\ 0 < cx1.op[1].op_end_index
    /\ cx1.op[1].op_end_index < lv2.lv2_num_items_db
    /\ MarkSet # {}

\* a batch with fewer items than workers
C28_WitnessSmall ==
    /\ Partitioned
    /\ lv2.lv2_num_items_db < Len(out)
    /\ Labelled = 1..Len(out)

(***************************************************************************)
(* Duplicate edges in the edge pipeline.                                   *)
(***************************************************************************)
\* the sub-group of an item: its k-mer, a and b
SubGroupKey(item) == <<item.chars, Extract_a(item), Extract_b(item)>>

\* the items of the current batch in the sub-group of item i
SubGroupItems(i) ==
    { j \in 0..(lv2.lv2_num_items_db - 1) :
        SubGroupKey(SortedDb[j + 1]) = SubGroupKey(SortedDb[i + 1]) }

\* the multiplicity an item carries: its inverted multiplicity, inverted
ItemMultiplicity(item) == kMaxMulti_t - ExtractCounting(item)

\* the largest multiplicity of the sub-group of item i
MaxMultiplicity(i) ==
    CHOOSE m \in { ItemMultiplicity(SortedDb[j + 1]) : j \in SubGroupItems(i) } :
        \A j \in SubGroupItems(i) : ItemMultiplicity(SortedDb[j + 1]) <= m

\* the written records of the sub-group of item i
EmittedOfSubGroup(i) ==
    { n \in 1..Len(emitted) : SubGroupKey(emitted[n].item) = SubGroupKey(SortedDb[i + 1]) }

\* items of the current batch that share their sub-group, a # $ and b # $
DuplicateItems ==
    { i \in 0..(lv2.lv2_num_items_db - 1) :
        /\ Extract_a(SortedDb[i + 1]) # kSentinelValue
        /\ Extract_b(SortedDb[i + 1]) # kSentinelValue
        /\ Cardinality(SubGroupItems(i)) >= 2 }

\* the output workers of the current batch have returned
BatchWritten == \A t \in 1..Len(out) : out[t].pc = "done"

\* C29: in the edge pipeline, when several level-2 items fall into the same
\* (a, b) sub-group with a # $ and b # $, exactly one record is emitted and
\* its count is the largest of the items' multiplicities, capped at
\* kMaxMulti_t (not their sum).
C29_DuplicateEdges ==
    (input.pipeline = "seq" /\ BatchWritten) =>
        \A i \in DuplicateItems :
            /\ Cardinality(EmittedOfSubGroup(i)) = 1
            /\ \A n \in EmittedOfSubGroup(i) :
                  emitted[n].count = Min(kMaxMulti_t, MaxMultiplicity(i))

\* every written record of a sub-group of duplicates carries the largest
\* multiplicity, and the labelling flags one item of the sub-group
C29_EveryRecordHasMaximum ==
    (input.pipeline = "seq" /\ BatchWritten) =>
        \A i \in DuplicateItems :
            /\ EmittedOfSubGroup(i) # {}
            /\ Cardinality(RecordsOfSubGroup(i)) = 1
            /\ \A n \in EmittedOfSubGroup(i) :
                  emitted[n].count = Min(kMaxMulti_t, MaxMultiplicity(i))

\* duplicates with the multiplicities 1 and 300 have been written
C29_WitnessMixed ==
    /\ input.pipeline = "seq" /\ BatchWritten
    /\ \E i \in DuplicateItems :
          /\ { ItemMultiplicity(SortedDb[j + 1]) : j \in SubGroupItems(i) } = {1, 300}
          /\ \E n \in EmittedOfSubGroup(i) : emitted[n].count = 300

\* the edge pipeline on packages that hold the same sequence twice, with
\* more output workers than such a pair has items in a bucket
DuplicateWriters == 3

DuplicateInputs ==
    { [inp EXCEPT !.num_output_threads = DuplicateWriters] :
      inp \in { x \in SeqInputs : /\ Len(x.package) = 2
                                  /\ x.package[1] = x.package[2]
                                  /\ x.num_cpu_threads = 1
                                  /\ x.num_output_threads = 1 } }

InitDuplicates ==
    /\ CX1Init(DuplicateInputs)
    /\ driver = NotStarted
    /\ mercy = NotStarted
    /\ dbg = NotStarted

SpecDuplicates == InitDuplicates /\ [][Next]_vars

====
